---- MODULE Spec2Model ----
(***************************************************************************)
(* A model of the menualic server: users, teams, team members,            *)
(* invitations, manuals, the permission resolver, internal shares,        *)
(* external share links, the section/block tree and version snapshots.    *)
(* Every route handler is one action; the handlers whose check-then-write *)
(* races matter are also modelled step by step (SpecConc).                *)
(***************************************************************************)
EXTENDS Integers, FiniteSets, Sequences, Bags, TLC

\* ---------------------------------------------------------------- bounds
MaxUsers == 3
MaxSignups == 2
MaxTeams == 2
MaxMembers == 3
MaxInvitations == 1
MaxManuals == 1
MaxSections == 3
MaxBlocks == 2
MaxVersions == 2
MaxLinks == 1
MaxInFlight == 2
MaxShares == 3
MaxNotifications == 4
MaxTime == 1
\* README: at most 3 levels of hierarchy
MaxDepth == 3
MaxEditSections == 2
MaxResetTokens == 1
MaxSaves == 2

UserIds == 1..MaxUsers
\* the emails that sign up
Emails == 1..MaxSignups
NoId == 0
Roles == {"OWNER", "EDITOR", "VIEWER"}
\* a role string the role whitelist of the member endpoints rejects
BadRole == "ADMIN"
\* Manual.description is nullable
Null == "null"
Descriptions == {Null, "d1"}
SectionTitles == {"s1", "s2"}
Contents == {"a", "b"}

VARIABLES
    users,          \* User rows: the set of registered user ids (id = unique email)
    credentials,    \* of each User row: [password, resetToken, resetTokenExpiry]
    editor,         \* the manual editor page of one browser: its React state
    teams,          \* Team rows: [id, ownerId]
    members,        \* TeamMember rows: [id, userId, teamId, role]
    invitations,    \* Invitation rows: [id (= token), email, role, teamId, senderId, status]
    clock,          \* invitations with id <= clock are past their expiresAt
    now,            \* new Date(): the time of the requests now arriving
    manuals,        \* Manual rows: [id, ownerId, teamId, title, description, updatedAt]
    versions,       \* ManualVersion rows: [id, manualId, content]
    notifications,  \* Notification rows, a bag of [type, userId, relatedId]
    shares,         \* ManualShare rows: [id, manualId, userId, permission]
    links,          \* ExternalShareLink rows: [id, manualId, accessType, isActive, expiry]
    sections,       \* ManualSection rows: [id, manualId, title, order, depth, parentId]
    blocks,         \* ContentBlock rows: [id, sectionId, type, content, order]
    seq,            \* next row id of each table
    resp,           \* the last HTTP response: [op, user, status]
    body,           \* what the last response carried besides its status
    reqs            \* requests in flight (step-by-step handlers only)

teamVars == <<users, credentials, teams, members, invitations, clock, now>>
manualVars == <<manuals, versions, shares, links, sections, blocks>>
vars == <<users, credentials, editor, teams, members, invitations, clock, now, manuals, versions,
          notifications, shares, links, sections, blocks, seq, resp, body, reqs>>

\* ------------------------------------------------------------- row helpers
NoMember == [id |-> NoId, userId |-> NoId, teamId |-> NoId, role |-> "NONE"]
NoInvitation == [id |-> NoId, email |-> NoId, role |-> "NONE", teamId |-> NoId,
                 senderId |-> NoId, status |-> "NONE"]
NoTeam == [id |-> NoId, ownerId |-> NoId]
NoManual == [id |-> NoId, ownerId |-> NoId, teamId |-> NoId, title |-> "", description |-> Null,
             updatedAt |-> 0]

\* the user's unique email; user ids are allotted one per email
Email(u) == u

\* the handler, the requester (NoId without a session) and the HTTP status
Response(op, u, status) == [op |-> op, user |-> u, status |-> status]

\* prisma.teamMember.findFirst({where: {userId}}): any one matching row, or null
findFirstMember(u) ==
    IF \E m \in members : m.userId = u
    THEN {m \in members : m.userId = u}
    ELSE {NoMember}

\* prisma.teamMember.findFirst({where: {userId, teamId}})
findFirstMemberIn(u, t) ==
    IF \E m \in members : m.userId = u /\ m.teamId = t
    THEN {m \in members : m.userId = u /\ m.teamId = t}
    ELSE {NoMember}

findMember(id) ==
    IF \E m \in members : m.id = id
    THEN CHOOSE m \in members : m.id = id
    ELSE NoMember

findInvitation(token) ==
    IF \E i \in invitations : i.id = token
    THEN CHOOSE i \in invitations : i.id = token
    ELSE NoInvitation

findTeam(id) ==
    IF \E t \in teams : t.id = id
    THEN CHOOSE t \in teams : t.id = id
    ELSE NoTeam

findManual(id) ==
    IF \E m \in manuals : m.id = id
    THEN CHOOSE m \in manuals : m.id = id
    ELSE NoManual

\* invitation.expiresAt && invitation.expiresAt < new Date()
isExpired(inv) == inv.id <= clock

\* JSON.stringify of the first version POST /api/manual writes: {title, sections: []}
InitialVersionContent(m) ==
    [hasDescription |-> FALSE, title |-> m.title, description |-> Null, sections |-> <<>>]

\* the editor page is not open
NoEditor == [page |-> "closed"]

\* ------------------------------------------------------------ accounts
NoToken == NoId

\* bcrypt.hash(password, saltRounds): a hash names the password it was made from
bcryptHash(password) == <<"bcrypt", password>>

\* the password columns of a User row without a reset token
Account(hashedPassword) ==
    [password |-> hashedPassword, resetToken |-> NoToken, resetTokenExpiry |-> Null]

\* the one password the signups of the model choose
SignupPassword == "p0"

\* user.create({data: {email, password: hashedPassword, name}})
withAccount(e, password) ==
    [u \in users \cup {e} |->
        IF u = e THEN Account(bcryptHash(password)) ELSE credentials[u]]

\* ----------------------------------------------------------- cascades
\* onDelete: Cascade from Manual to its sections, blocks, shares, links and versions
ManualsLeft(dead) == {m \in manuals : m.id \notin dead}
VersionsLeft(dead) == {v \in versions : v.manualId \notin dead}
SharesLeft(dead) == {s \in shares : s.manualId \notin dead}
LinksLeft(dead) == {l \in links : l.manualId \notin dead}
SectionsLeft(dead) == {s \in sections : s.manualId \notin dead}
BlocksLeft(dead) ==
    {b \in blocks : \E s \in SectionsLeft(dead) : s.id = b.sectionId}

DeleteManuals(dead) ==
    /\ manuals' = ManualsLeft(dead)
    /\ versions' = VersionsLeft(dead)
    /\ shares' = SharesLeft(dead)
    /\ links' = LinksLeft(dead)
    /\ sections' = SectionsLeft(dead)
    /\ blocks' = BlocksLeft(dead)

\* ------------------------------------------------- POST /api/auth/signup
\* The invitation branch of signup: taken for a token naming a PENDING invitation.
signupConsumes(invitation) == invitation.id # NoId /\ invitation.status = "PENDING"

Signup(e, token) ==
    LET invitation == IF token = NoId THEN NoInvitation ELSE findInvitation(token)
        team == findTeam(invitation.teamId)
    IN
    /\ IF e \in users
       THEN /\ resp' = Response("signup", e, 400)
            /\ UNCHANGED <<users, credentials, editor, members, invitations, notifications, seq>>
       ELSE /\ users' = users \cup {e}
            /\ credentials' = withAccount(e, SignupPassword)
            /\ resp' = Response("signup", e, 200)
            /\ IF signupConsumes(invitation)
               THEN IF isExpired(invitation)
                    THEN /\ invitations' = (invitations \ {invitation})
                                \cup {[invitation EXCEPT !.status = "EXPIRED"]}
                         /\ UNCHANGED <<members, notifications, seq>>
                    ELSE /\ seq.member <= MaxMembers
                         /\ members' = members \cup
                                {[id |-> seq.member, userId |-> e,
                                  teamId |-> invitation.teamId, role |-> invitation.role]}
                         /\ seq' = [seq EXCEPT !.member = @ + 1]
                         /\ invitations' = (invitations \ {invitation})
                                \cup {[invitation EXCEPT !.status = "ACCEPTED"]}
                         /\ notifications' = notifications (+)
                                SetToBag({[type |-> "MEMBER_JOINED", userId |-> team.ownerId,
                                           relatedId |-> invitation.teamId]})
               ELSE UNCHANGED <<members, invitations, notifications, seq>>
    /\ UNCHANGED <<editor, teams, clock, now, manualVars, body, reqs>>

\* ------------------------------------------------------ POST /api/team
\* a team creation that skips the membership check
createTeamStatusUnchecked(existingTeamMember) == 200

\* existingTeamMember: the requester already has a TeamMember row
createTeamStatus(existingTeamMember) ==
    IF existingTeamMember # NoMember THEN 400 ELSE 200

\* the transaction: the Team row and the creator's OWNER row, together
createTeamTx(u) ==
    /\ seq.team <= MaxTeams
    /\ seq.member <= MaxMembers
    /\ teams' = teams \cup {[id |-> seq.team, ownerId |-> u]}
    /\ members' = members \cup
            {[id |-> seq.member, userId |-> u, teamId |-> seq.team, role |-> "OWNER"]}
    /\ seq' = [seq EXCEPT !.team = @ + 1, !.member = @ + 1]

CreateTeam(u) ==
    /\ u \in users
    /\ \E existingTeamMember \in findFirstMember(u) :
        LET status == createTeamStatus(existingTeamMember) IN
        /\ resp' = Response("createTeam", u, status)
        /\ IF status = 200
           THEN createTeamTx(u)
           ELSE UNCHANGED <<teams, members, seq>>
    /\ UNCHANGED <<users, credentials, editor, invitations, clock, now, notifications, manualVars, body, reqs>>

\* ---------------------------------------------------- DELETE /api/team
DeleteTeam(u) ==
    /\ u \in users
    /\ IF \E t \in teams : t.ownerId = u
       THEN \E team \in {t \in teams : t.ownerId = u} :
            /\ teams' = teams \ {team}
            \* cascade will handle members, manuals, etc.
            /\ members' = {m \in members : m.teamId # team.id}
            /\ invitations' = {i \in invitations : i.teamId # team.id}
            /\ DeleteManuals({m.id : m \in {x \in manuals : x.teamId = team.id}})
            /\ resp' = Response("deleteTeam", u, 200)
       ELSE /\ resp' = Response("deleteTeam", u, 403)
            /\ UNCHANGED <<teams, members, invitations, manualVars>>
    /\ UNCHANGED <<users, credentials, editor, clock, now, notifications, seq, body, reqs>>

\* ------------------------------------------------ POST /api/team/member
inviteStatus(teamMember, email, role) ==
    IF teamMember = NoMember \/ teamMember.role # "OWNER" THEN 403
    ELSE IF role \notin Roles THEN 400
    ELSE IF email \in users
            /\ \E membership \in members : membership.userId = email
         THEN 400   \* already in this team, or in another team
    ELSE IF \E i \in invitations :
                i.email = email /\ i.teamId = teamMember.teamId /\ i.status = "PENDING"
         THEN 400
    ELSE 200

InviteMember(u, email, role) ==
    /\ u \in users
    /\ \E teamMember \in findFirstMember(u) :
        LET status == inviteStatus(teamMember, email, role) IN
        /\ resp' = Response("invite", u, status)
        /\ IF status = 200
           THEN /\ seq.inv <= MaxInvitations
                /\ invitations' = invitations \cup
                        {[id |-> seq.inv, email |-> email, role |-> role,
                          teamId |-> teamMember.teamId, senderId |-> u,
                          status |-> "PENDING"]}
                /\ seq' = [seq EXCEPT !.inv = @ + 1]
           ELSE UNCHANGED <<invitations, seq>>
    /\ UNCHANGED <<users, credentials, editor, teams, members, clock, now, notifications, manualVars, body, reqs>>

\* ---------------------------------------------- GET /api/invite/[token]
ViewInvitation(token) ==
    LET invitation == findInvitation(token) IN
    /\ IF invitation = NoInvitation
       THEN /\ resp' = Response("viewInvitation", NoId, 404)
            /\ UNCHANGED invitations
       ELSE IF isExpired(invitation)
       THEN /\ invitations' = (invitations \ {invitation})
                    \cup {[invitation EXCEPT !.status = "EXPIRED"]}
            /\ resp' = Response("viewInvitation", NoId, 400)
       ELSE /\ resp' = Response("viewInvitation", NoId,
                                IF invitation.status # "PENDING" THEN 400 ELSE 200)
            /\ UNCHANGED invitations
    /\ UNCHANGED <<users, credentials, editor, teams, members, clock, now, notifications, seq, manualVars, body, reqs>>

\* --------------------------------------------- POST /api/invite/[token]
\* the checks that follow the expiry check
acceptStatus(invitation, u) ==
    IF invitation.status # "PENDING" THEN 400
    ELSE IF Email(u) # invitation.email THEN 400
    ELSE IF \E m \in members : m.userId = u THEN 400
    ELSE 200

AcceptInvitation(u, token) ==
    LET invitation == findInvitation(token) IN
    /\ u \in users
    /\ IF invitation = NoInvitation
       THEN /\ resp' = Response("accept", u, 404)
            /\ UNCHANGED <<members, invitations, seq>>
       ELSE IF isExpired(invitation)
       THEN /\ invitations' = (invitations \ {invitation})
                    \cup {[invitation EXCEPT !.status = "EXPIRED"]}
            /\ resp' = Response("accept", u, 400)
            /\ UNCHANGED <<members, seq>>
       ELSE LET status == acceptStatus(invitation, u) IN
            /\ resp' = Response("accept", u, status)
            /\ IF status = 200
               THEN /\ seq.member <= MaxMembers
                    /\ members' = members \cup
                            {[id |-> seq.member, userId |-> u,
                              teamId |-> invitation.teamId, role |-> invitation.role]}
                    /\ seq' = [seq EXCEPT !.member = @ + 1]
                    /\ invitations' = (invitations \ {invitation})
                            \cup {[invitation EXCEPT !.status = "ACCEPTED"]}
               ELSE UNCHANGED <<members, invitations, seq>>
    /\ UNCHANGED <<users, credentials, editor, teams, clock, now, notifications, manualVars, body, reqs>>

\* --------------------------------------------- PUT /api/team/member/[id]
\* a role change that skips the same-team check
changeRoleStatusAnyTeam(u, currentUserMember, memberToUpdate, role) ==
    IF currentUserMember = NoMember \/ currentUserMember.role # "OWNER" THEN 403
    ELSE IF role \notin Roles THEN 400
    ELSE IF memberToUpdate = NoMember THEN 404
    ELSE IF memberToUpdate.userId = u THEN 400
    ELSE 200

changeRoleStatus(u, currentUserMember, memberToUpdate, role) ==
    IF currentUserMember = NoMember \/ currentUserMember.role # "OWNER" THEN 403
    ELSE IF role \notin Roles THEN 400
    ELSE IF memberToUpdate = NoMember THEN 404
    ELSE IF memberToUpdate.teamId # currentUserMember.teamId THEN 403
    ELSE IF memberToUpdate.userId = u THEN 400
    ELSE 200

ChangeRole(u, memberId, role) ==
    LET memberToUpdate == findMember(memberId) IN
    /\ u \in users
    /\ \E currentUserMember \in findFirstMember(u) :
        LET status == changeRoleStatus(u, currentUserMember, memberToUpdate, role) IN
        /\ resp' = Response("changeRole", u, status)
        /\ IF status = 200
           THEN members' = (members \ {memberToUpdate})
                    \cup {[memberToUpdate EXCEPT !.role = role]}
           ELSE UNCHANGED members
    /\ UNCHANGED <<users, credentials, editor, teams, invitations, clock, now, notifications, seq, manualVars,
                   body, reqs>>

\* ------------------------------------------ DELETE /api/team/member/[id]
removeMemberStatus(u, currentUserMember, memberToRemove) ==
    IF currentUserMember = NoMember \/ currentUserMember.role # "OWNER" THEN 403
    ELSE IF memberToRemove = NoMember THEN 404
    ELSE IF memberToRemove.teamId # currentUserMember.teamId THEN 403
    ELSE IF memberToRemove.userId = u THEN 400
    ELSE 200

RemoveMember(u, memberId) ==
    LET memberToRemove == findMember(memberId) IN
    /\ u \in users
    /\ \E currentUserMember \in findFirstMember(u) :
        LET status == removeMemberStatus(u, currentUserMember, memberToRemove) IN
        /\ resp' = Response("removeMember", u, status)
        /\ IF status = 200
           THEN members' = members \ {memberToRemove}
           ELSE UNCHANGED members
    /\ UNCHANGED <<users, credentials, editor, teams, invitations, clock, now, notifications, seq, manualVars,
                   body, reqs>>

\* time passes the expiresAt of the oldest invitation not yet past it
Tick ==
    /\ clock + 1 < seq.inv
    /\ clock' = clock + 1
    /\ UNCHANGED <<users, credentials, editor, teams, members, invitations, now, notifications, seq, manualVars,
                   resp, body, reqs>>

\* ----------------------------------------------------- POST /api/manual
createManualStatus(teamMember) ==
    IF teamMember = NoMember THEN 400
    ELSE IF teamMember.role = "VIEWER" THEN 403
    ELSE 200

CreateManual(u, title, description) ==
    /\ u \in users
    /\ \E teamMember \in findFirstMember(u) :
        LET status == createManualStatus(teamMember)
            manual == [id |-> seq.manual, ownerId |-> u, teamId |-> teamMember.teamId,
                       title |-> title, description |-> description, updatedAt |-> now]
        IN
        /\ resp' = Response("createManual", u, status)
        /\ IF status = 200
           THEN /\ seq.manual <= MaxManuals
                /\ manuals' = manuals \cup {manual}
                \* Create initial version
                /\ versions' = versions \cup
                        {[id |-> seq.version, manualId |-> manual.id,
                          content |-> InitialVersionContent(manual)]}
                /\ seq' = [seq EXCEPT !.manual = @ + 1, !.version = @ + 1]
           ELSE UNCHANGED <<manuals, versions, seq>>
    /\ UNCHANGED <<teamVars, editor, notifications, shares, links, sections, blocks, body, reqs>>

\* ---------------------------------------------- DELETE /api/manual/[id]
deleteManualStatus(u, manual) ==
    IF manual = NoManual THEN 404
    ELSE IF manual.ownerId # u
            /\ ~ \E m \in members :
                    m.userId = u /\ m.teamId = manual.teamId /\ m.role = "OWNER"
         THEN 403
    ELSE 200

DeleteManual(u, id) ==
    LET manual == findManual(id)
        status == deleteManualStatus(u, manual)
    IN
    /\ u \in users
    /\ resp' = Response("deleteManual", u, status)
    /\ IF status = 200
       THEN DeleteManuals({id})
       ELSE UNCHANGED manualVars
    /\ UNCHANGED <<teamVars, editor, notifications, seq, body, reqs>>

\* ------------------------------------------------------ lib/permissions
PermissionResult(permission) ==
    [permission |-> permission,
     canEdit |-> permission = "OWNER" \/ permission = "EDITOR",
     canDelete |-> permission = "OWNER",
     canShare |-> permission = "OWNER"]

\* manual.team.members[0] of include {members: {where: {userId}}}
teamMembersOf(userId, manual) == findFirstMemberIn(userId, manual.teamId)

\* a resolver that gives OWNER to the manual's owner only
resolvePermissionOwnerOnly(isOwner, teamMember) ==
    IF isOwner THEN "OWNER"
    ELSE IF teamMember.role = "EDITOR" THEN "EDITOR"
    ELSE IF teamMember.role = "VIEWER" THEN "VIEWER"
    ELSE "NONE"

resolvePermission(isOwner, teamMember) ==
    IF isOwner \/ teamMember.role = "OWNER" THEN "OWNER"
    ELSE IF teamMember.role = "EDITOR" THEN "EDITOR"
    ELSE IF teamMember.role = "VIEWER" THEN "VIEWER"
    ELSE "NONE"

\* the results checkManualPermission can return (one per choice of members[0])
checkManualPermission(userId, manualId) ==
    LET manual == findManual(manualId) IN
    IF manual = NoManual
    THEN {PermissionResult("NONE")}
    ELSE {PermissionResult(resolvePermission(manual.ownerId = userId, teamMember)) :
            teamMember \in teamMembersOf(userId, manual)}

\* lib/permissions-helpers: checkManualEditPermission does not throw
checkManualEditPermission(manual, teamMember, userId) ==
    manual.ownerId = userId \/ teamMember.role = "OWNER" \/ teamMember.role = "EDITOR"

\* requireManualEditAccess: 404, 403, or the manual
requireManualEditAccess(manualId, userId, teamMember) ==
    LET manual == findManual(manualId) IN
    IF manual = NoManual THEN 404
    ELSE IF ~ checkManualEditPermission(manual, teamMember, userId) THEN 403
    ELSE 200

\* the inline check of the reorder, section, block and version routes
inlineCanEdit(manual, teamMember, userId) ==
    manual.ownerId = userId \/ teamMember.role = "OWNER" \/ teamMember.role = "EDITOR"

\* ------------------------------------------------------------ Spec
FirstIds == [team |-> 1, member |-> 1, inv |-> 1, manual |-> 1, version |-> 1, token |-> 1,
             share |-> 1, link |-> 1, section |-> 1, block |-> 1]
NoBody == [kind |-> "none"]

Init ==
    /\ users = {}
    /\ credentials = [u \in {} |-> Account(bcryptHash(SignupPassword))]
    /\ editor = NoEditor
    /\ teams = {}
    /\ members = {}
    /\ invitations = {}
    /\ clock = 0
    /\ now = 0
    /\ manuals = {}
    /\ versions = {}
    /\ notifications = EmptyBag
    /\ shares = {}
    /\ links = {}
    /\ sections = {}
    /\ blocks = {}
    /\ seq = FirstIds
    /\ resp = Response("none", NoId, 0)
    /\ body = NoBody
    /\ reqs = <<>>

MemberIds == 1..MaxMembers
InvitationIds == 1..MaxInvitations
ManualIds == 1..MaxManuals

Next ==
    \/ \E e \in Emails, token \in InvitationIds \cup {NoId} : Signup(e, token)
    \/ \E u \in Emails : CreateTeam(u)
    \/ \E u \in Emails : DeleteTeam(u)
    \/ \E u \in Emails, email \in Emails, role \in Roles \cup {BadRole} :
            InviteMember(u, email, role)
    \/ \E token \in InvitationIds : ViewInvitation(token)
    \/ \E u \in Emails, token \in InvitationIds : AcceptInvitation(u, token)
    \/ \E u \in Emails, id \in MemberIds, role \in Roles \cup {BadRole} :
            ChangeRole(u, id, role)
    \/ \E u \in Emails, id \in MemberIds : RemoveMember(u, id)
    \/ \E u \in Emails : CreateManual(u, "t1", Null)
    \/ \E u \in Emails, id \in ManualIds : DeleteManual(u, id)
    \/ Tick

Spec == Init /\ [][Next]_vars

\* ------------------------------------------------------------ C4
ownersOf(team) == {m \in members : m.teamId = team.id /\ m.role = "OWNER"}

\* C4: in every reachable state every team has exactly one TeamMember whose
\* role is OWNER.
C4_ExactlyOneOwner == \A team \in teams : Cardinality(ownersOf(team)) = 1

\* ------------------------------------------------------------ C5
\* C5: a POST /api/team by a user who has a TeamMember row answers 400 and
\* leaves the Team and TeamMember rows as they were; a POST /api/team that
\* writes anything writes one Team row owned by the requester together with
\* the requester's OWNER row in that team, and nothing else.
C5_CreateTeamAllOrNothing ==
    [][\A u \in Emails :
        CreateTeam(u) =>
            /\ (\E m \in members : m.userId = u) =>
                    (resp'.status = 400 /\ teams' = teams /\ members' = members)
            /\ (teams' # teams \/ members' # members) =>
                    \E t \in teams' \ teams, m \in members' \ members :
                        /\ teams' = teams \cup {t}
                        /\ members' = members \cup {m}
                        /\ t.ownerId = u
                        /\ m.userId = u /\ m.teamId = t.id /\ m.role = "OWNER"]_vars

\* a member of a team was just refused a second team
C5_Witness ==
    /\ resp = Response("createTeam", resp.user, 400)
    /\ \E m \in members : m.userId = resp.user /\ m.role = "EDITOR"
    /\ \E t \in teams : \E m \in members :
            m.userId = t.ownerId /\ m.teamId = t.id /\ m.role = "OWNER"

\* ------------------------------------------------------------ C6
\* the requester holds OWNER in a team and the target member is in that team
ownsTeamOf(u, target) ==
    \E m \in members : m.userId = u /\ m.role = "OWNER" /\ m.teamId = target.teamId

holdsOwner(u) == \E m \in members : m.userId = u /\ m.role = "OWNER"

rejectedUnchanged ==
    resp'.status \in {400, 403, 404} /\ invitations' = invitations /\ members' = members

\* C6: an invitation is written only for a requester who holds OWNER, into
\* that requester's team; a role change or a removal changes a row only when
\* the requester holds OWNER in the team of the target member; every other
\* requester gets an error and no Invitation or TeamMember row changes; a
\* request of an owner on their own row gets an error and changes nothing.
C6_OnlyOwnerManagesOwnTeam ==
    [][/\ \A u \in Emails, email \in Emails, role \in Roles \cup {BadRole} :
            InviteMember(u, email, role) =>
                /\ ~ holdsOwner(u) => rejectedUnchanged
                /\ \A i \in invitations' \ invitations :
                        \E m \in members :
                            m.userId = u /\ m.role = "OWNER" /\ m.teamId = i.teamId
       /\ \A u \in Emails, id \in MemberIds, role \in Roles \cup {BadRole} :
            ChangeRole(u, id, role) =>
                /\ ~ (findMember(id) # NoMember /\ ownsTeamOf(u, findMember(id))) =>
                        rejectedUnchanged
                /\ findMember(id).userId = u => rejectedUnchanged
       /\ \A u \in Emails, id \in MemberIds :
            RemoveMember(u, id) =>
                /\ ~ (findMember(id) # NoMember /\ ownsTeamOf(u, findMember(id))) =>
                        rejectedUnchanged
                /\ findMember(id).userId = u => rejectedUnchanged]_vars

\* an EDITOR was just refused a member-management request
C6_Witness ==
    /\ resp.op \in {"invite", "changeRole", "removeMember"}
    /\ resp.status = 403
    /\ \E m \in members : m.userId = resp.user /\ m.role = "EDITOR"

\* ------------------------------------------------------------ C7
\* C7: whoever holds OWNER in a manual's team gets OWNER from
\* checkManualPermission and passes requireManualEditAccess and the inline
\* edit check of the section and block routes, owner of the manual or not.
C7_TeamOwnerEditsEveryManual ==
    \A manual \in manuals, a \in users :
        (\E m \in members : m.userId = a /\ m.teamId = manual.teamId /\ m.role = "OWNER") =>
            /\ \A result \in checkManualPermission(a, manual.id) :
                    result = PermissionResult("OWNER")
            /\ \A teamMember \in teamMembersOf(a, manual) :
                    /\ requireManualEditAccess(manual.id, a, teamMember) = 200
                    /\ inlineCanEdit(manual, teamMember, a)

\* A created the team and invited B as EDITOR, B accepted and has just
\* created a manual
C7_Witness ==
    /\ resp.op = "createManual" /\ resp.status = 200
    /\ \E manual \in manuals, a \in users, i \in invitations :
        /\ manual.ownerId = resp.user
        /\ a # manual.ownerId
        /\ findTeam(manual.teamId).ownerId = a
        /\ \E m \in members : m.userId = a /\ m.teamId = manual.teamId /\ m.role = "OWNER"
        /\ \E m \in members :
                m.userId = manual.ownerId /\ m.teamId = manual.teamId /\ m.role = "EDITOR"
        /\ i.senderId = a /\ i.email = Email(manual.ownerId) /\ i.role = "EDITOR"
        /\ i.status = "ACCEPTED"

\* ------------------------------------------ the permission resolver alone
\* Every combination of ownership, team role and share rows for one manual of
\* team 1: RoleRows(r) gives user u the TeamMember row of role r[u] (none for
\* "NONE"), ShareRows(sh) the ManualShare row of permission sh[u].
RoleRows(r) == {[id |-> u, userId |-> u, teamId |-> 1, role |-> r[u]] :
                    u \in {x \in UserIds : r[x] # "NONE"}}
ShareRows(sh) == {[id |-> u, manualId |-> 1, userId |-> u, permission |-> sh[u]] :
                    u \in {x \in UserIds : sh[x] # "NONE"}}

InitPerm ==
    /\ users = UserIds
    /\ credentials = [u \in UserIds |-> Account(bcryptHash(SignupPassword))]
    /\ editor = NoEditor
    /\ teams = {[id |-> 1, ownerId |-> 1]}
    /\ \E r \in [UserIds -> Roles \cup {"NONE"}] : members = RoleRows(r)
    /\ invitations = {}
    /\ clock = 0
    /\ now = 0
    /\ \E owner \in UserIds, exists \in BOOLEAN, sh \in [UserIds -> {"NONE", "EDITOR", "VIEWER"}] :
        /\ manuals = IF exists
                     THEN {[id |-> 1, ownerId |-> owner, teamId |-> 1, title |-> "t1",
                            description |-> Null, updatedAt |-> 0]}
                     ELSE {}
        \* shares go with their manual
        /\ shares = IF exists THEN ShareRows(sh) ELSE {}
        /\ owner = IF exists THEN owner ELSE 1
        /\ sh = IF exists THEN sh ELSE [u \in UserIds |-> "NONE"]
    /\ versions = {}
    /\ notifications = EmptyBag
    /\ links = {}
    /\ sections = {}
    /\ blocks = {}
    /\ seq = FirstIds
    /\ resp = Response("none", NoId, 0)
    /\ body = NoBody
    /\ reqs = <<>>

\* a call checkManualPermission(userId, manualId); body keeps the call and its result
ResolvePermission(userId, manualId) ==
    /\ \E result \in checkManualPermission(userId, manualId) :
        body' = [kind |-> "permission", userId |-> userId, manualId |-> manualId,
                 result |-> result]
    /\ UNCHANGED <<teamVars, editor, manualVars, notifications, seq, resp, reqs>>

NextPerm == \E userId \in UserIds, manualId \in ManualIds : ResolvePermission(userId, manualId)

SpecPerm == InitPerm /\ [][NextPerm]_vars

\* The precedence the specification gives: owner or team OWNER, team EDITOR,
\* team VIEWER, the explicit share, NONE.
SharePermissionOf(userId, manualId) ==
    IF \E s \in shares : s.manualId = manualId /\ s.userId = userId
    THEN (CHOOSE s \in shares : s.manualId = manualId /\ s.userId = userId).permission
    ELSE "NONE"

TeamRoleOf(userId, teamId) ==
    IF \E m \in members : m.userId = userId /\ m.teamId = teamId
    THEN (CHOOSE m \in members : m.userId = userId /\ m.teamId = teamId).role
    ELSE "NONE"

StatedPermission(userId, manualId) ==
    LET manual == findManual(manualId)
        teamRole == TeamRoleOf(userId, manual.teamId)
    IN
    IF manual = NoManual THEN "NONE"
    ELSE IF manual.ownerId = userId \/ teamRole = "OWNER" THEN "OWNER"
    ELSE IF teamRole = "EDITOR" THEN "EDITOR"
    ELSE IF teamRole = "VIEWER" THEN "VIEWER"
    ELSE SharePermissionOf(userId, manualId)

\* C1: checkManualPermission returns the permission of the stated precedence
\* (owner / team OWNER, team EDITOR, team VIEWER, explicit share, NONE), with
\* canEdit = OWNER or EDITOR and canDelete = canShare = OWNER.
C1_StatedPrecedence ==
    body.kind = "permission" =>
        LET p == StatedPermission(body.userId, body.manualId) IN
        /\ body.result.permission = p
        /\ body.result.canEdit = (p \in {"OWNER", "EDITOR"})
        /\ body.result.canDelete = (p = "OWNER")
        /\ body.result.canShare = (p = "OWNER")

\* ======================================================= document tree
NoSection == [id |-> NoId, manualId |-> NoId, title |-> "", order |-> 0, depth |-> 0,
              parentId |-> NoId]

findSection(id) ==
    IF \E x \in sections : x.id = id
    THEN CHOOSE x \in sections : x.id = id
    ELSE NoSection

\* orderBy: {order: 'asc'}: the rows of S in any sequence of non-decreasing order
SortedByOrder(S) ==
    {f \in [1..Cardinality(S) -> S] :
        /\ \A i, j \in 1..Cardinality(S) : i # j => f[i] # f[j]
        /\ \A i, j \in 1..Cardinality(S) : i < j => f[i].order <= f[j].order}

\* the number of rows, less one
maxOrderByCount(S) == Cardinality(S) - 1

\* findFirst({orderBy: {order: 'desc'}})?.order ?? -1
maxOrder(S) ==
    IF S = {} THEN -1 ELSE CHOOSE o \in {x.order : x \in S} : \A x \in S : x.order <= o

\* the foreign key ManualSection.parentId -> ManualSection.id
sectionParentExists(parentId, rows) ==
    parentId = NoId \/ \E x \in rows : x.id = parentId

\* the foreign key ContentBlock.sectionId -> ManualSection.id
blockSectionExists(sectionId, rows) == \E x \in rows : x.id = sectionId

\* prisma.manual.update({where: {id}, data: {updatedAt: new Date()}})
touch(id) == {IF m.id = id THEN [m EXCEPT !.updatedAt = now] ELSE m : m \in manuals}

\* ------------------------------------------ POST /api/manual/[id]/section
AddSection(u, id, title, parentId) ==
    LET manual == findManual(id)
        parent == findSection(parentId)
        depth == IF parentId # NoId /\ parent # NoSection THEN parent.depth + 1 ELSE 1
        nextOrder == maxOrder({x \in sections : x.manualId = id /\ x.parentId = parentId}) + 1
    IN
    /\ u \in users
    /\ \E teamMember \in teamMembersOf(u, manual) :
        LET access == requireManualEditAccess(id, u, teamMember) IN
        IF access # 200
        THEN /\ resp' = Response("addSection", u, access)
             /\ UNCHANGED <<sections, manuals, seq>>
        ELSE IF ~ sectionParentExists(parentId, sections)
        THEN /\ resp' = Response("addSection", u, 500)
             /\ UNCHANGED <<sections, manuals, seq>>
        ELSE /\ sections' = sections \cup
                    {[id |-> seq.section, manualId |-> id, title |-> title,
                      order |-> nextOrder, depth |-> depth, parentId |-> parentId]}
             /\ manuals' = touch(id)
             /\ seq' = [seq EXCEPT !.section = @ + 1]
             /\ resp' = Response("addSection", u, 200)
    /\ UNCHANGED <<teamVars, editor, versions, shares, links, blocks, notifications,
                   body, reqs>>

\* -------------------------------------------- POST /api/manual/[id]/block
AddBlock(u, id, sectionId, type, content) ==
    LET manual == findManual(id)
        nextOrder == maxOrder({b \in blocks : b.sectionId = sectionId}) + 1
    IN
    /\ u \in users
    /\ \E teamMember \in teamMembersOf(u, manual) :
        LET access == requireManualEditAccess(id, u, teamMember) IN
        IF access # 200
        THEN /\ resp' = Response("addBlock", u, access)
             /\ UNCHANGED <<blocks, manuals, seq>>
        ELSE IF ~ blockSectionExists(sectionId, sections)
        THEN /\ resp' = Response("addBlock", u, 500)
             /\ UNCHANGED <<blocks, manuals, seq>>
        ELSE /\ seq.block <= MaxBlocks
             /\ blocks' = blocks \cup
                    {[id |-> seq.block, sectionId |-> sectionId, type |-> type,
                      content |-> content, order |-> nextOrder]}
             /\ manuals' = touch(id)
             /\ seq' = [seq EXCEPT !.block = @ + 1]
             /\ resp' = Response("addBlock", u, 200)
    /\ UNCHANGED <<teamVars, editor, versions, shares, links, sections, notifications,
                   body, reqs>>

\* ------------------------------------------------ sections with blocks
\* include: {sections: {include: {blocks: {orderBy}}, orderBy}}: the manual's
\* sections in order, each with its blocks in order; ties fall either way
blockOrders(id) ==
    LET ids == {x.id : x \in {y \in sections : y.manualId = id}}
        seqsOf(sid) == SortedByOrder({b \in blocks : b.sectionId = sid})
    IN {f \in [ids -> UNION {seqsOf(sid) : sid \in ids}] : \A sid \in ids : f[sid] \in seqsOf(sid)}

sectionsWithBlocks(id) ==
    {[i \in DOMAIN rows |->
        [id |-> rows[i].id, manualId |-> rows[i].manualId, title |-> rows[i].title,
         order |-> rows[i].order, depth |-> rows[i].depth, parentId |-> rows[i].parentId,
         blocks |-> bo[rows[i].id]]] :
        rows \in SortedByOrder({x \in sections : x.manualId = id}), bo \in blockOrders(id)}

\* ================================================= external share links
NoLink == [id |-> NoId, manualId |-> NoId, accessType |-> "NONE", isActive |-> FALSE,
           expiry |-> "none"]

\* findUnique({where: {token}}); a link's token stands for the link
findLink(token) ==
    IF \E l \in links : l.id = token
    THEN CHOOSE l \in links : l.id = token
    ELSE NoLink

\* shareLink.expiresAt && shareLink.expiresAt < new Date()
linkExpired(shareLink) == shareLink.expiry = "past"

\* ------------------------------- POST /api/manual/[id]/share/external
createLinkStatus(u, manual) ==
    IF manual = NoManual THEN 404
    ELSE IF manual.ownerId # u THEN 403
    ELSE 200

CreateLink(u, id, accessType, expiry) ==
    LET status == createLinkStatus(u, findManual(id)) IN
    /\ u \in users
    /\ resp' = Response("createLink", u, status)
    /\ IF status = 200
       THEN /\ seq.link <= MaxLinks
            \* isActive is not passed to create: the row takes the column's default
            /\ \E isActive \in BOOLEAN :
                links' = links \cup
                    {[id |-> seq.link, manualId |-> id, accessType |-> accessType,
                      isActive |-> isActive, expiry |-> expiry]}
            /\ seq' = [seq EXCEPT !.link = @ + 1]
       ELSE UNCHANGED <<links, seq>>
    /\ UNCHANGED <<teamVars, editor, manuals, versions, shares, sections, blocks, notifications,
                   body, reqs>>

\* ------------------------ PUT /api/manual/[id]/share/external/[linkId]
toggleLinkStatus(u, manual, link, id) ==
    IF manual = NoManual THEN 404
    ELSE IF manual.ownerId # u THEN 403
    \* update({where: {id: linkId, manualId: id}}) throws when no row matches
    ELSE IF link = NoLink \/ link.manualId # id THEN 500
    ELSE 200

ToggleLink(u, id, linkId, isActive) ==
    LET link == findLink(linkId)
        status == toggleLinkStatus(u, findManual(id), link, id)
    IN
    /\ u \in users
    /\ resp' = Response("toggleLink", u, status)
    /\ IF status = 200
       THEN links' = (links \ {link}) \cup {[link EXCEPT !.isActive = isActive]}
       ELSE UNCHANGED links
    /\ UNCHANGED <<teamVars, editor, manuals, versions, shares, sections, blocks, notifications,
                   seq, body, reqs>>

\* time passes a link's expiresAt
LinkExpires(linkId) ==
    LET link == findLink(linkId) IN
    /\ link # NoLink
    /\ link.expiry = "future"
    /\ links' = (links \ {link}) \cup {[link EXCEPT !.expiry = "past"]}
    /\ UNCHANGED <<teamVars, editor, manuals, versions, shares, sections, blocks, notifications,
                   seq, resp, body, reqs>>

\* a fetch that checks expiry before isActive
fetchStatusExpiryFirst(shareLink) ==
    IF shareLink = NoLink THEN 404
    ELSE IF shareLink.expiry = "past" THEN 410
    ELSE IF ~ shareLink.isActive THEN 403
    ELSE 200

\* ------------------------------------------------ GET /api/share/[token]
fetchStatus(shareLink) ==
    IF shareLink = NoLink THEN 404
    ELSE IF ~ shareLink.isActive THEN 403
    ELSE IF linkExpired(shareLink) THEN 410
    ELSE 200

\* buildSectionTree: a node is the section (with its blocks) plus children; a
\* section whose parent is not among the manual's sections is dropped
RECURSIVE treeNode(_, _)
treeNode(section, rows) ==
    [id |-> section.id, manualId |-> section.manualId, title |-> section.title,
     order |-> section.order, depth |-> section.depth, parentId |-> section.parentId,
     blocks |-> section.blocks,
     children |->
        LET kids == SelectSeq(rows, LAMBDA r : r.parentId = section.id)
        IN [i \in DOMAIN kids |-> treeNode(kids[i], rows)]]

buildSectionTree(rows) ==
    LET roots == SelectSeq(rows, LAMBDA r : r.parentId = NoId)
    IN [i \in DOMAIN roots |-> treeNode(roots[i], rows)]

\* a removeSectionContent that strips the root sections only
removeSectionContentShallow(nodes) ==
    [i \in DOMAIN nodes |->
        [id |-> nodes[i].id, title |-> nodes[i].title, order |-> nodes[i].order,
         depth |-> nodes[i].depth, blocks |-> <<>>,
         children |-> nodes[i].children]]

\* removeSectionContent: id, title, order, depth, no blocks, children likewise
RECURSIVE removeSectionContent(_)
removeSectionContent(nodes) ==
    [i \in DOMAIN nodes |->
        [id |-> nodes[i].id, title |-> nodes[i].title, order |-> nodes[i].order,
         depth |-> nodes[i].depth, blocks |-> <<>>,
         children |-> removeSectionContent(nodes[i].children)]]

responseSections(accessType, sectionsTree) ==
    IF accessType = "TITLE_ONLY" THEN removeSectionContent(sectionsTree) ELSE sectionsTree

FetchShared(token) ==
    LET shareLink == findLink(token)
        status == fetchStatus(shareLink)
        manual == findManual(shareLink.manualId)
    IN
    /\ resp' = Response("fetchShared", NoId, status)
    /\ IF status = 200
       THEN \E rows \in sectionsWithBlocks(manual.id) :
            body' = [kind |-> "manual", token |-> token, id |-> manual.id,
                     title |-> manual.title, description |-> manual.description,
                     accessType |-> shareLink.accessType,
                     sections |-> responseSections(shareLink.accessType,
                                                   buildSectionTree(rows))]
       ELSE body' = [kind |-> "error", token |-> token]
    /\ UNCHANGED <<teamVars, editor, manualVars, notifications, seq, reqs>>

\* --------------------------------------------------------- SpecLink
\* A team of three: user 1 its OWNER and the owner of manual 1, user 2 an
\* EDITOR, user 3 a VIEWER.
InitDoc(title, description) ==
    /\ users = UserIds
    /\ credentials = [u \in UserIds |-> Account(bcryptHash(SignupPassword))]
    /\ editor = NoEditor
    /\ teams = {[id |-> 1, ownerId |-> 1]}
    /\ members = {[id |-> u, userId |-> u, teamId |-> 1,
                   role |-> IF u = 1 THEN "OWNER" ELSE IF u = 2 THEN "EDITOR" ELSE "VIEWER"] :
                    u \in UserIds}
    /\ invitations = {}
    /\ clock = 0
    /\ now = 0
    /\ LET manual == [id |-> 1, ownerId |-> 1, teamId |-> 1, title |-> title,
                      description |-> description, updatedAt |-> 0]
       IN /\ manuals = {manual}
          /\ versions = {[id |-> 1, manualId |-> 1, content |-> InitialVersionContent(manual)]}
    /\ notifications = EmptyBag
    /\ shares = {}
    /\ links = {}
    /\ sections = {}
    /\ blocks = {}
    /\ seq = [FirstIds EXCEPT !.team = 2, !.member = MaxUsers + 1, !.manual = 2, !.version = 2]
    /\ resp = Response("none", NoId, 0)
    /\ body = NoBody
    /\ reqs = <<>>

InitLink == InitDoc("t1", "d1")

SectionIds == 1..MaxSections
LinkIds == 1..MaxLinks

NextLink ==
    \/ /\ seq.section <= MaxSections
       /\ \E u \in UserIds, parentId \in SectionIds \cup {NoId} :
            AddSection(u, 1, "s1", parentId)
    \/ \E u \in UserIds, sectionId \in SectionIds : AddBlock(u, 1, sectionId, "BODY", "a")
    \/ \E u \in UserIds, accessType \in {"TITLE_ONLY", "FULL_ACCESS"},
          expiry \in {"none", "future", "past"} : CreateLink(u, 1, accessType, expiry)
    \/ \E u \in UserIds, linkId \in LinkIds, isActive \in BOOLEAN :
            ToggleLink(u, 1, linkId, isActive)
    \/ \E linkId \in LinkIds : LinkExpires(linkId)
    \/ \E token \in LinkIds : FetchShared(token)

SpecLink == InitLink /\ [][NextLink]_vars

\* ------------------------------------------------------------ C2
TitleOnlyFields == {"id", "title", "order", "depth", "blocks", "children"}

RECURSIVE TitleOnlyNodes(_)
TitleOnlyNodes(nodes) ==
    \A i \in DOMAIN nodes :
        /\ DOMAIN nodes[i] = TitleOnlyFields
        /\ nodes[i].blocks = <<>>
        /\ TitleOnlyNodes(nodes[i].children)

\* C2: a successful fetch through a TITLE_ONLY link returns a section tree in
\* which every blocks array at every depth is empty and every section carries
\* only id, title, order, depth, blocks and children.
C2_TitleOnlyHasNoContent ==
    (body.kind = "manual" /\ body.accessType = "TITLE_ONLY") => TitleOnlyNodes(body.sections)

\* a TITLE_ONLY response with a nested section whose stored section has a block
C2_Witness ==
    /\ resp.status = 200
    /\ body.kind = "manual"
    /\ body.accessType = "TITLE_ONLY"
    /\ \E i \in DOMAIN body.sections :
        \E j \in DOMAIN body.sections[i].children :
            \E b \in blocks : b.sectionId = body.sections[i].children[j].id

\* ------------------------------------------------------------ C8
\* C8 as stated: data only for an existing, active, unexpired link; every
\* inactive link answers 403 and every expired link answers 410, without data.
C8_AsStated ==
    [][\A token \in LinkIds :
        FetchShared(token) =>
            LET link == findLink(token) IN
            /\ (body'.kind = "manual") <=>
                    (link # NoLink /\ link.isActive /\ ~ linkExpired(link))
            /\ (link # NoLink /\ ~ link.isActive) =>
                    (resp'.status = 403 /\ body'.kind = "error")
            /\ (link # NoLink /\ linkExpired(link)) =>
                    (resp'.status = 410 /\ body'.kind = "error")]_vars

\* C8: data only for an existing, active, unexpired link; an inactive link
\* answers 403 whether or not it is past its expiry, an active link past its
\* expiry answers 410, neither with manual data; so while isActive is false
\* every fetch of the token is rejected.
C8_InactiveBeforeExpired ==
    [][\A token \in LinkIds :
        FetchShared(token) =>
            LET link == findLink(token) IN
            /\ (body'.kind = "manual") <=>
                    (link # NoLink /\ link.isActive /\ ~ linkExpired(link))
            /\ (link # NoLink /\ ~ link.isActive) =>
                    (resp'.status = 403 /\ body'.kind = "error")
            /\ (link # NoLink /\ link.isActive /\ linkExpired(link)) =>
                    (resp'.status = 410 /\ body'.kind = "error")]_vars

\* a fetch of a link that is both inactive and past its expiry was answered 403
C8_Witness ==
    /\ body.kind = "error"
    /\ resp.status = 403
    /\ findLink(body.token) # NoLink
    /\ ~ findLink(body.token).isActive
    /\ linkExpired(findLink(body.token))

\* ================================= the membership handlers, step by step
\* Each await of POST /api/team, POST /api/invite/[token] and POST
\* /api/auth/signup is one step; reqs[slot] is a request in flight with the
\* rows it has read so far.
Slots == 1..MaxInFlight
Idle == [op |-> "idle", user |-> NoId, token |-> NoId, pc |-> "idle",
         invitation |-> NoInvitation]

Request(op, u, token, pc) ==
    [op |-> op, user |-> u, token |-> token, pc |-> pc, invitation |-> NoInvitation]

\* the handler of slot returns
Respond(slot, status) ==
    /\ resp' = Response(reqs[slot].op, reqs[slot].user, status)
    /\ reqs' = [reqs EXCEPT ![slot] = Idle]

Goto(slot, pc) == reqs' = [reqs EXCEPT ![slot].pc = pc]

\* a request arrives
Arrive(slot, op, u, token) ==
    /\ reqs[slot] = Idle
    /\ op \in {"createTeam", "accept"} => u \in users
    /\ reqs' = [reqs EXCEPT ![slot] = Request(op, u, token, "start")]
    /\ UNCHANGED <<teamVars, editor, manualVars, notifications, seq, resp, body>>

\* teamMember.create; whether the schema makes a second row of the same user
\* in the same team a unique violation is not told by the handlers
memberCreateOutcomes(u, teamId) ==
    IF \E m \in members : m.userId = u /\ m.teamId = teamId
    THEN {"created", "unique violation"}
    ELSE {"created"}

\* POST /api/team: const existingTeamMember = await findFirst(...)
CreateTeamCheck(slot) ==
    LET r == reqs[slot] IN
    /\ r.op = "createTeam" /\ r.pc = "start"
    /\ \E existingTeamMember \in findFirstMember(r.user) :
        IF createTeamStatus(existingTeamMember) = 400
        THEN Respond(slot, 400)
        ELSE Goto(slot, "tx") /\ UNCHANGED resp
    /\ UNCHANGED <<teamVars, editor, manualVars, notifications, seq, body>>

\* POST /api/team: await prisma.$transaction(...)
CreateTeamCommit(slot) ==
    LET r == reqs[slot] IN
    /\ r.op = "createTeam" /\ r.pc = "tx"
    /\ createTeamTx(r.user)
    /\ Respond(slot, 200)
    /\ UNCHANGED <<users, credentials, editor, invitations, clock, now, manualVars, notifications, body>>

\* POST /api/invite/[token]: findUnique, then the expiry, status and email checks
AcceptRead(slot) ==
    LET r == reqs[slot]
        invitation == findInvitation(r.token)
    IN
    /\ r.op = "accept" /\ r.pc = "start"
    /\ IF invitation = NoInvitation
       THEN Respond(slot, 404) /\ UNCHANGED invitations
       ELSE IF isExpired(invitation)
       THEN /\ invitations' = (invitations \ {invitation})
                    \cup {[invitation EXCEPT !.status = "EXPIRED"]}
            /\ Respond(slot, 400)
       ELSE IF invitation.status # "PENDING" \/ Email(r.user) # invitation.email
       THEN Respond(slot, 400) /\ UNCHANGED invitations
       ELSE /\ reqs' = [reqs EXCEPT ![slot].pc = "memberships",
                                    ![slot].invitation = invitation]
            /\ UNCHANGED <<invitations, resp>>
    /\ UNCHANGED <<users, credentials, editor, teams, members, clock, now, manualVars, notifications, seq, body>>

\* POST /api/invite/[token]: the user with teamMemberships
AcceptMemberships(slot) ==
    LET r == reqs[slot] IN
    /\ r.op = "accept" /\ r.pc = "memberships"
    /\ IF \E m \in members : m.userId = r.user
       THEN Respond(slot, 400)
       ELSE Goto(slot, "tx") /\ UNCHANGED resp
    /\ UNCHANGED <<teamVars, editor, manualVars, notifications, seq, body>>

\* POST /api/invite/[token]: $transaction([teamMember.create, invitation.update])
AcceptCommit(slot) ==
    LET r == reqs[slot]
        current == findInvitation(r.token)
    IN
    /\ r.op = "accept" /\ r.pc = "tx"
    /\ \E outcome \in memberCreateOutcomes(r.user, r.invitation.teamId) :
        IF outcome = "created"
        THEN /\ seq.member <= MaxMembers
             /\ members' = members \cup
                    {[id |-> seq.member, userId |-> r.user,
                      teamId |-> r.invitation.teamId, role |-> r.invitation.role]}
             /\ seq' = [seq EXCEPT !.member = @ + 1]
             /\ invitations' = (invitations \ {current})
                    \cup {[current EXCEPT !.status = "ACCEPTED"]}
             /\ Respond(slot, 200)
        ELSE /\ Respond(slot, 500)
             /\ UNCHANGED <<members, invitations, seq>>
    /\ UNCHANGED <<users, credentials, editor, teams, clock, now, manualVars, notifications, body>>

\* POST /api/auth/signup: const existingUser = await findUnique(...)
SignupCheck(slot) ==
    LET r == reqs[slot] IN
    /\ r.op = "signup" /\ r.pc = "start"
    /\ IF r.user \in users
       THEN Respond(slot, 400)
       ELSE Goto(slot, "create") /\ UNCHANGED resp
    /\ UNCHANGED <<teamVars, editor, manualVars, notifications, seq, body>>

\* POST /api/auth/signup: user.create; User.email is unique
SignupCreate(slot) ==
    LET r == reqs[slot] IN
    /\ r.op = "signup" /\ r.pc = "create"
    /\ IF r.user \in users
       THEN Respond(slot, 500) /\ UNCHANGED <<users, credentials>>
       ELSE /\ users' = users \cup {r.user}
            /\ credentials' = withAccount(r.user, SignupPassword)
            /\ IF r.token = NoId
               THEN Respond(slot, 200)
               ELSE Goto(slot, "invitation") /\ UNCHANGED resp
    /\ UNCHANGED <<editor, teams, members, invitations, clock, now, manualVars, notifications,
                   seq, body>>

\* POST /api/auth/signup: the invitation of the token, and its expiry
SignupReadInvitation(slot) ==
    LET r == reqs[slot]
        invitation == findInvitation(r.token)
    IN
    /\ r.op = "signup" /\ r.pc = "invitation"
    /\ IF ~ signupConsumes(invitation)
       THEN Respond(slot, 200) /\ UNCHANGED invitations
       ELSE IF isExpired(invitation)
       THEN /\ invitations' = (invitations \ {invitation})
                    \cup {[invitation EXCEPT !.status = "EXPIRED"]}
            /\ Respond(slot, 200)
       ELSE /\ reqs' = [reqs EXCEPT ![slot].pc = "member", ![slot].invitation = invitation]
            /\ UNCHANGED <<invitations, resp>>
    /\ UNCHANGED <<users, credentials, editor, teams, members, clock, now, manualVars, notifications, seq, body>>

\* POST /api/auth/signup: teamMember.create
SignupAddMember(slot) ==
    LET r == reqs[slot] IN
    /\ r.op = "signup" /\ r.pc = "member"
    /\ \E outcome \in memberCreateOutcomes(r.user, r.invitation.teamId) :
        IF outcome = "created"
        THEN /\ seq.member <= MaxMembers
             /\ members' = members \cup
                    {[id |-> seq.member, userId |-> r.user,
                      teamId |-> r.invitation.teamId, role |-> r.invitation.role]}
             /\ seq' = [seq EXCEPT !.member = @ + 1]
             /\ Goto(slot, "accepted") /\ UNCHANGED resp
        ELSE /\ Respond(slot, 500)
             /\ UNCHANGED <<members, seq>>
    /\ UNCHANGED <<users, credentials, editor, teams, invitations, clock, now, manualVars, notifications, body>>

\* POST /api/auth/signup: invitation.update to ACCEPTED
SignupMarkAccepted(slot) ==
    LET r == reqs[slot]
        current == findInvitation(r.token)
    IN
    /\ r.op = "signup" /\ r.pc = "accepted"
    /\ invitations' = (invitations \ {current}) \cup {[current EXCEPT !.status = "ACCEPTED"]}
    /\ Goto(slot, "notify")
    /\ UNCHANGED <<users, credentials, editor, teams, members, clock, now, manualVars, notifications, seq, resp, body>>

\* POST /api/auth/signup: notification.create for the team owner
SignupNotify(slot) ==
    LET r == reqs[slot] IN
    /\ r.op = "signup" /\ r.pc = "notify"
    /\ notifications' = notifications (+)
            SetToBag({[type |-> "MEMBER_JOINED",
                       userId |-> findTeam(r.invitation.teamId).ownerId,
                       relatedId |-> r.invitation.teamId]})
    /\ Respond(slot, 200)
    /\ UNCHANGED <<teamVars, editor, manualVars, seq, body>>

\* --------------------------------------------------------- SpecConc
\* User 2 owns team 1 and has invited one email as EDITOR: user 1, who is
\* registered and in no team, or email 3, not yet registered.
InitConc ==
    /\ users = {1, 2}
    /\ credentials = [u \in {1, 2} |-> Account(bcryptHash(SignupPassword))]
    /\ editor = NoEditor
    /\ teams = {[id |-> 1, ownerId |-> 2]}
    /\ members = {[id |-> 1, userId |-> 2, teamId |-> 1, role |-> "OWNER"]}
    /\ \E email \in {1, 3} :
        invitations = {[id |-> 1, email |-> email, role |-> "EDITOR", teamId |-> 1,
                        senderId |-> 2, status |-> "PENDING"]}
    /\ clock = 0
    /\ now = 0
    /\ manuals = {}
    /\ versions = {}
    /\ notifications = EmptyBag
    /\ shares = {}
    /\ links = {}
    /\ sections = {}
    /\ blocks = {}
    /\ seq = [FirstIds EXCEPT !.team = 2, !.member = 2, !.inv = 2]
    /\ resp = Response("none", NoId, 0)
    /\ body = NoBody
    /\ reqs = [slot \in Slots |-> Idle]

NextConc ==
    \/ \E slot \in Slots, op \in {"createTeam", "accept", "signup"}, u \in UserIds,
          token \in InvitationIds \cup {NoId} :
            /\ op = "createTeam" => token = NoId
            /\ op = "accept" => token # NoId
            /\ Arrive(slot, op, u, token)
    \/ \E slot \in Slots : CreateTeamCheck(slot)
    \/ \E slot \in Slots : CreateTeamCommit(slot)
    \/ \E slot \in Slots : AcceptRead(slot)
    \/ \E slot \in Slots : AcceptMemberships(slot)
    \/ \E slot \in Slots : AcceptCommit(slot)
    \/ \E slot \in Slots : SignupCheck(slot)
    \/ \E slot \in Slots : SignupCreate(slot)
    \/ \E slot \in Slots : SignupReadInvitation(slot)
    \/ \E slot \in Slots : SignupAddMember(slot)
    \/ \E slot \in Slots : SignupMarkAccepted(slot)
    \/ \E slot \in Slots : SignupNotify(slot)
    \/ Tick

SpecConc == InitConc /\ [][NextConc]_vars

\* ------------------------------------------------------------ C3
\* C3: in every reachable state, whatever the interleaving of the steps of
\* concurrent team creations, invitation acceptances and signups with a
\* token, every user has at most one TeamMember row.
C3_AtMostOneMembership ==
    \A u \in users : Cardinality({m \in members : m.userId = u}) <= 1

\* ===================================================== version snapshots
NoVersion == [id |-> NoId, manualId |-> NoId,
              content |-> [hasDescription |-> FALSE, title |-> "", description |-> Null,
                           sections |-> <<>>]]

\* manualVersion.findUnique({where: {id: versionId, manualId: id}})
findVersion(versionId, id) ==
    IF \E v \in versions : v.id = versionId /\ v.manualId = id
    THEN CHOOSE v \in versions : v.id = versionId /\ v.manualId = id
    ELSE NoVersion

\* a snapshot that leaves the sections out
snapshotOfNoSections(manual, rows) ==
    [hasDescription |-> TRUE, title |-> manual.title, description |-> manual.description,
     sections |-> <<>>]

\* the snapshot POST /api/manual/[id]/version serialises, from the manual
\* and its sections as read (rows: the sections in order, with their blocks)
snapshotOf(manual, rows) ==
    [hasDescription |-> TRUE, title |-> manual.title, description |-> manual.description,
     sections |->
        [i \in DOMAIN rows |->
            [id |-> rows[i].id, title |-> rows[i].title, order |-> rows[i].order,
             depth |-> rows[i].depth, parentId |-> rows[i].parentId,
             blocks |-> [k \in DOMAIN rows[i].blocks |->
                            [id |-> rows[i].blocks[k].id, type |-> rows[i].blocks[k].type,
                             content |-> rows[i].blocks[k].content,
                             order |-> rows[i].blocks[k].order]]]]]

\* a create that skips a snapshot equal to one the manual already has
createVersionUnlessSame(row) ==
    IF \E v \in versions : v.manualId = row.manualId /\ v.content = row.content
    THEN versions ELSE versions \cup {row}

\* prisma.manualVersion.create({data: {manualId: id, content, ...}})
createVersionRow(row) == versions \cup {row}

\* ------------------------------------------ POST /api/manual/[id]/version
CreateVersion(u, id) ==
    LET manual == findManual(id) IN
    /\ u \in users
    /\ IF manual = NoManual
       THEN /\ resp' = Response("createVersion", u, 404)
            /\ UNCHANGED <<versions, seq>>
       ELSE \E teamMember \in teamMembersOf(u, manual) :
            IF ~ inlineCanEdit(manual, teamMember, u)
            THEN /\ resp' = Response("createVersion", u, 403)
                 /\ UNCHANGED <<versions, seq>>
            ELSE /\ \E rows \in sectionsWithBlocks(id) :
                        versions' = createVersionRow(
                            [id |-> seq.version, manualId |-> id,
                             content |-> snapshotOf(manual, rows)])
                 /\ seq' = [seq EXCEPT !.version = @ + 1]
                 /\ resp' = Response("createVersion", u, 200)
    /\ UNCHANGED <<teamVars, editor, manuals, shares, links, sections, blocks, notifications,
                   body, reqs>>

\* ------------------- POST /api/manual/[id]/version/[versionId]/restore
\* a deleteMany that deletes nothing
deleteManySectionsNone(id) == sections

\* tx.manualSection.deleteMany({where: {manualId: id}}): the sections left
deleteManySections(id) == {x \in sections : x.manualId # id}

\* the blocks left once their sections are gone (cascade will handle blocks)
blocksOfSections(rows) == {b \in blocks : \E x \in rows : x.id = b.sectionId}

RECURSIVE blocksBefore(_, _)
blocksBefore(snap, i) ==
    IF i <= 1 THEN 0 ELSE blocksBefore(snap, i - 1) + Len(snap[i - 1].blocks)

\* the section row tx.manualSection.create writes for the i-th snapshot section
restoredSection(id, snap, i) ==
    [id |-> seq.section + i - 1, manualId |-> id, title |-> snap[i].title,
     order |-> snap[i].order, depth |-> snap[i].depth, parentId |-> snap[i].parentId]

\* the rows of its nested blocks: {create: section.blocks.map(...)}
restoredBlocks(snap, i) ==
    {[id |-> seq.block + blocksBefore(snap, i) + k - 1, sectionId |-> seq.section + i - 1,
      type |-> snap[i].blocks[k].type, content |-> snap[i].blocks[k].content,
      order |-> snap[i].blocks[k].order] : k \in DOMAIN snap[i].blocks}

\* every create of the loop finds its parentId among the rows then present
restoreParentsExist(id, snap) ==
    \A i \in DOMAIN snap :
        sectionParentExists(snap[i].parentId,
            deleteManySections(id) \cup {restoredSection(id, snap, j) : j \in 1..(i - 1)})

\* the first create of the loop whose parentId names no row then present
restoreFailsAt(id, snap) ==
    CHOOSE i \in DOMAIN snap :
        /\ ~ sectionParentExists(snap[i].parentId,
                deleteManySections(id) \cup {restoredSection(id, snap, j) : j \in 1..(i - 1)})
        /\ \A k \in 1..(i - 1) :
            sectionParentExists(snap[k].parentId,
                deleteManySections(id) \cup {restoredSection(id, snap, j) : j \in 1..(k - 1)})

\* a failed batch whose writes stay
notRolledBack(before, written) == written

\* prisma.$transaction whose callback throws: what the table holds afterwards,
\* given the rows before the transaction and the rows it had written
rolledBack(before, written) == before

RestoreVersion(u, id, versionId) ==
    LET manual == findManual(id)
        version == findVersion(versionId, id)
        snapshot == version.content
        snap == snapshot.sections
        kept == deleteManySections(id)
        restoredManuals == (manuals \ {manual}) \cup
                        {[manual EXCEPT !.title = snapshot.title,
                                        !.description = IF snapshot.hasDescription
                                                        THEN snapshot.description ELSE @,
                                        !.updatedAt = now]}
    IN
    /\ u \in users
    /\ IF manual = NoManual
       THEN /\ resp' = Response("restore", u, 404)
            /\ UNCHANGED <<manuals, sections, blocks, seq>>
       ELSE \E teamMember \in teamMembersOf(u, manual) :
            IF ~ inlineCanEdit(manual, teamMember, u)
            THEN /\ resp' = Response("restore", u, 403)
                 /\ UNCHANGED <<manuals, sections, blocks, seq>>
            ELSE IF version = NoVersion
            THEN /\ resp' = Response("restore", u, 404)
                 /\ UNCHANGED <<manuals, sections, blocks, seq>>
            ELSE IF ~ restoreParentsExist(id, snap)
            THEN LET done == 1..(restoreFailsAt(id, snap) - 1) IN
                 /\ sections' = rolledBack(sections,
                        kept \cup {restoredSection(id, snap, i) : i \in done})
                 /\ blocks' = rolledBack(blocks,
                        blocksOfSections(kept) \cup UNION {restoredBlocks(snap, i) : i \in done})
                 /\ manuals' = rolledBack(manuals, restoredManuals)
                 /\ resp' = Response("restore", u, 500)
                 /\ UNCHANGED seq
            ELSE /\ seq.section + Len(snap) - 1 <= MaxSections
                 /\ seq.block + blocksBefore(snap, Len(snap) + 1) - 1 <= MaxBlocks
                 /\ sections' = kept \cup {restoredSection(id, snap, i) : i \in DOMAIN snap}
                 /\ blocks' = blocksOfSections(kept)
                        \cup UNION {restoredBlocks(snap, i) : i \in DOMAIN snap}
                 \* description: undefined leaves the column as it is
                 /\ manuals' = restoredManuals
                 /\ seq' = [seq EXCEPT !.section = @ + Len(snap),
                                       !.block = @ + blocksBefore(snap, Len(snap) + 1)]
                 /\ resp' = Response("restore", u, 200)
    /\ UNCHANGED <<teamVars, editor, versions, shares, links, notifications, body, reqs>>

\* --------------------------------------------------------- SpecDoc
InitVersions == \E description \in Descriptions : InitDoc("t1", description)

VersionIds == 1..MaxVersions

\* the requesters of the document routes: the EDITOR and the VIEWER of the team
DocRequesters == {2, 3}

NextDoc ==
    \/ /\ seq.section <= MaxSections
       /\ \E u \in DocRequesters, title \in SectionTitles, parentId \in SectionIds \cup {NoId} :
            AddSection(u, 1, title, parentId)
    \/ \E u \in DocRequesters, sectionId \in SectionIds, content \in Contents :
            AddBlock(u, 1, sectionId, "BODY", content)
    \/ seq.version <= MaxVersions /\ \E u \in DocRequesters : CreateVersion(u, 1)
    \/ \E u \in DocRequesters, versionId \in VersionIds : RestoreVersion(u, 1, versionId)

SpecDoc == InitVersions /\ [][NextDoc]_vars

\* ------------------------------------------------------------ C10
blockShape(b) == [type |-> b.type, content |-> b.content, order |-> b.order]

\* rows and their blocks are the snapshot sections snap under fresh ids: the
\* same titles, orders and depths, the same parent of each section, and per
\* section the same blocks by type, content and order
RestoredAs(snap, rows, rowBlocks) ==
    \E f \in [DOMAIN snap -> rows] :
        /\ \A i, j \in DOMAIN snap : i # j => f[i] # f[j]
        /\ {f[i] : i \in DOMAIN snap} = rows
        /\ \A i \in DOMAIN snap :
            /\ f[i].title = snap[i].title
            /\ f[i].order = snap[i].order
            /\ f[i].depth = snap[i].depth
            /\ \A j \in DOMAIN snap : snap[i].parentId = snap[j].id => f[i].parentId = f[j].id
            /\ (\A j \in DOMAIN snap : snap[i].parentId # snap[j].id) =>
                    f[i].parentId = snap[i].parentId
            /\ {blockShape(b) : b \in {c \in rowBlocks : c.sectionId = f[i].id}}
                    = {blockShape(snap[i].blocks[k]) : k \in DOMAIN snap[i].blocks}
            /\ Cardinality({c \in rowBlocks : c.sectionId = f[i].id}) = Len(snap[i].blocks)

NoBlock == [id |-> NoId, sectionId |-> NoId, type |-> "", content |-> "", order |-> 0]

findBlock(id) ==
    IF \E b \in blocks : b.id = id
    THEN CHOOSE b \in blocks : b.id = id
    ELSE NoBlock

\* the answer once the row is written: manual.update throws when the
\* manual of the URL does not exist
stampStatus(id) == IF findManual(id) = NoManual THEN 500 ELSE 200

\* data: validatedData: the section with the fields the body holds written
sectionWithData(section, data) ==
    [section EXCEPT !.title = IF "title" \in data.fields THEN data.title ELSE @,
                    !.order = IF "order" \in data.fields THEN data.order ELSE @]

\* an update that writes nothing
blockWithoutData(block, data) == block

\* data: validatedData: the block with the fields the body holds written
blockWithData(block, data) ==
    [block EXCEPT !.content = IF "content" \in data.fields THEN data.content ELSE @,
                  !.order = IF "order" \in data.fields THEN data.order ELSE @]

\* the sections deleted with section sectionId: itself and, through the
\* parent relation, every section below it
RECURSIVE sectionsBelow(_)
sectionsBelow(ids) ==
    LET more == ids \cup {x.id : x \in {y \in sections : y.parentId \in ids}} IN
    IF more = ids THEN ids ELSE sectionsBelow(more)

\* --------------------------- PUT /api/manual/[id]/section/[sectionId]
UpdateSection(u, id, sectionId, data) ==
    LET section == findSection(sectionId)
        manual == findManual(section.manualId)
    IN
    /\ u \in users
    /\ IF section = NoSection
       THEN /\ resp' = Response("updateSection", u, 404)
            /\ UNCHANGED <<sections, manuals>>
       ELSE \E teamMember \in teamMembersOf(u, manual) :
            IF ~ inlineCanEdit(manual, teamMember, u)
            THEN /\ resp' = Response("updateSection", u, 403)
                 /\ UNCHANGED <<sections, manuals>>
            ELSE /\ sections' = (sections \ {section}) \cup {sectionWithData(section, data)}
                 /\ manuals' = touch(id)
                 /\ resp' = Response("updateSection", u, stampStatus(id))
    /\ UNCHANGED <<teamVars, editor, versions, shares, links, blocks, notifications, seq,
                   body, reqs>>

\* ------------------------ DELETE /api/manual/[id]/section/[sectionId]
DeleteSection(u, id, sectionId) ==
    LET section == findSection(sectionId)
        manual == findManual(section.manualId)
        dead == sectionsBelow({sectionId})
    IN
    /\ u \in users
    /\ IF section = NoSection
       THEN /\ resp' = Response("deleteSection", u, 404)
            /\ UNCHANGED <<sections, blocks, manuals>>
       ELSE \E teamMember \in teamMembersOf(u, manual) :
            IF ~ inlineCanEdit(manual, teamMember, u)
            THEN /\ resp' = Response("deleteSection", u, 403)
                 /\ UNCHANGED <<sections, blocks, manuals>>
            ELSE /\ sections' = {x \in sections : x.id \notin dead}
                 /\ blocks' = {b \in blocks : b.sectionId \notin dead}
                 /\ manuals' = touch(id)
                 /\ resp' = Response("deleteSection", u, stampStatus(id))
    /\ UNCHANGED <<teamVars, editor, versions, shares, links, notifications, seq, body, reqs>>

\* ------------------------------- PUT /api/manual/[id]/block/[blockId]
UpdateBlock(u, id, blockId, data) ==
    LET block == findBlock(blockId)
        manual == findManual(findSection(block.sectionId).manualId)
    IN
    /\ u \in users
    /\ IF block = NoBlock
       THEN /\ resp' = Response("updateBlock", u, 404)
            /\ UNCHANGED <<blocks, manuals>>
       ELSE \E teamMember \in teamMembersOf(u, manual) :
            IF ~ inlineCanEdit(manual, teamMember, u)
            THEN /\ resp' = Response("updateBlock", u, 403)
                 /\ UNCHANGED <<blocks, manuals>>
            ELSE /\ blocks' = (blocks \ {block}) \cup {blockWithData(block, data)}
                 /\ manuals' = touch(id)
                 /\ resp' = Response("updateBlock", u, stampStatus(id))
    /\ UNCHANGED <<teamVars, editor, versions, shares, links, sections, notifications, seq,
                   body, reqs>>

\* ---------------------------- DELETE /api/manual/[id]/block/[blockId]
DeleteBlock(u, id, blockId) ==
    LET block == findBlock(blockId)
        manual == findManual(findSection(block.sectionId).manualId)
    IN
    /\ u \in users
    /\ IF block = NoBlock
       THEN /\ resp' = Response("deleteBlock", u, 404)
            /\ UNCHANGED <<blocks, manuals>>
       ELSE \E teamMember \in teamMembersOf(u, manual) :
            IF ~ inlineCanEdit(manual, teamMember, u)
            THEN /\ resp' = Response("deleteBlock", u, 403)
                 /\ UNCHANGED <<blocks, manuals>>
            ELSE /\ blocks' = blocks \ {block}
                 /\ manuals' = touch(id)
                 /\ resp' = Response("deleteBlock", u, stampStatus(id))
    /\ UNCHANGED <<teamVars, editor, versions, shares, links, sections, notifications, seq,
                   body, reqs>>

\* ------------------------------------------------------- reorder
\* updates that move a row by the order of its pair
RECURSIVE applyOrdersRelative(_, _, _)
applyOrdersRelative(rows, pairs, n) ==
    IF n = 0 THEN rows
    ELSE {IF x.id = pairs[n].id THEN [x EXCEPT !.order = @ + pairs[n].order] ELSE x :
            x \in applyOrdersRelative(rows, pairs, n - 1)}

\* the rows after the first n updates {where: {id}, data: {order}} of pairs
RECURSIVE applyOrders(_, _, _)
applyOrders(rows, pairs, n) ==
    IF n = 0 THEN rows
    ELSE {IF x.id = pairs[n].id THEN [x EXCEPT !.order = pairs[n].order] ELSE x :
            x \in applyOrders(rows, pairs, n - 1)}

\* update throws for an id that names no row
updatesFound(rows, pairs) == \A i \in DOMAIN pairs : \E x \in rows : x.id = pairs[i].id

\* a batch that keeps the updates made before the one that throws
reorderedUpToFailure(rows, pairs) ==
    LET ok == {n \in 0..Len(pairs) : \A i \in 1..n : \E x \in rows : x.id = pairs[i].id}
    IN applyOrders(rows, pairs, CHOOSE n \in ok : \A k \in ok : k <= n)

\* prisma.$transaction(pairs.map(update)): every update, or none when one throws
reordered(rows, pairs) ==
    IF updatesFound(rows, pairs) THEN applyOrders(rows, pairs, Len(pairs)) ELSE rows

\* ------------------------------ PUT /api/manual/[id]/section/reorder
ReorderSections(u, id, pairs) ==
    LET manual == findManual(id) IN
    /\ u \in users
    /\ IF manual = NoManual
       THEN /\ resp' = Response("reorderSections", u, 404)
            /\ UNCHANGED <<sections, manuals>>
       ELSE \E teamMember \in teamMembersOf(u, manual) :
            IF ~ inlineCanEdit(manual, teamMember, u)
            THEN /\ resp' = Response("reorderSections", u, 403)
                 /\ UNCHANGED <<sections, manuals>>
            ELSE /\ sections' = reordered(sections, pairs)
                 /\ IF updatesFound(sections, pairs)
                    THEN /\ manuals' = touch(id)
                         /\ resp' = Response("reorderSections", u, 200)
                    ELSE /\ resp' = Response("reorderSections", u, 500)
                         /\ UNCHANGED manuals
    /\ UNCHANGED <<teamVars, editor, versions, shares, links, blocks, notifications, seq,
                   body, reqs>>

\* -------------------------------- PUT /api/manual/[id]/block/reorder
ReorderBlocks(u, id, pairs) ==
    LET manual == findManual(id) IN
    /\ u \in users
    /\ IF manual = NoManual
       THEN /\ resp' = Response("reorderBlocks", u, 404)
            /\ UNCHANGED <<blocks, manuals>>
       ELSE \E teamMember \in teamMembersOf(u, manual) :
            IF ~ inlineCanEdit(manual, teamMember, u)
            THEN /\ resp' = Response("reorderBlocks", u, 403)
                 /\ UNCHANGED <<blocks, manuals>>
            ELSE /\ blocks' = reordered(blocks, pairs)
                 /\ IF updatesFound(blocks, pairs)
                    THEN /\ manuals' = touch(id)
                         /\ resp' = Response("reorderBlocks", u, 200)
                    ELSE /\ resp' = Response("reorderBlocks", u, 500)
                         /\ UNCHANGED manuals
    /\ UNCHANGED <<teamVars, editor, versions, shares, links, sections, notifications, seq,
                   body, reqs>>

\* time passes between two requests
TimePasses ==
    /\ now < MaxTime
    /\ now' = now + 1
    /\ UNCHANGED <<users, credentials, editor, teams, members, invitations, clock, notifications, seq,
                   manualVars, resp, body, reqs>>

\* ===================================================== two manuals
\* two teams with a manual each: user 1 owns team 1 and its manual, user 2 is
\* an EDITOR of team 1, user 3 owns team 2 and its manual
InitTwo ==
    /\ users = UserIds
    /\ credentials = [u \in UserIds |-> Account(bcryptHash(SignupPassword))]
    /\ editor = NoEditor
    /\ teams = {[id |-> 1, ownerId |-> 1], [id |-> 2, ownerId |-> 3]}
    /\ members = {[id |-> 1, userId |-> 1, teamId |-> 1, role |-> "OWNER"],
                  [id |-> 2, userId |-> 2, teamId |-> 1, role |-> "EDITOR"],
                  [id |-> 3, userId |-> 3, teamId |-> 2, role |-> "OWNER"]}
    /\ invitations = {}
    /\ clock = 0
    /\ now = 0
    /\ LET first == [id |-> 1, ownerId |-> 1, teamId |-> 1, title |-> "t1",
                     description |-> "d1", updatedAt |-> 0]
           second == [id |-> 2, ownerId |-> 3, teamId |-> 2, title |-> "t2",
                      description |-> "d2", updatedAt |-> 0]
       IN /\ manuals = {first, second}
          /\ versions = {[id |-> 1, manualId |-> 1, content |-> InitialVersionContent(first)],
                         [id |-> 2, manualId |-> 2, content |-> InitialVersionContent(second)]}
    /\ notifications = EmptyBag
    /\ shares = {}
    /\ links = {}
    /\ sections = {}
    /\ blocks = {}
    /\ seq = [FirstIds EXCEPT !.team = 3, !.member = 4, !.manual = 3, !.version = 3]
    /\ resp = Response("none", NoId, 0)
    /\ body = NoBody
    /\ reqs = <<>>

\* -------------------------------------------------------- SpecEdit
\* the initial version of each manual and two snapshots
RestoreVersionIds == 1..(MaxVersions + 2)

EditSectionIds == 1..MaxEditSections
BlockIds == 1..MaxBlocks

\* the bodies of the reorder requests: one pair, or two pairs either way round
ReorderRequests == {<<[id |-> 1, order |-> 1]>>,
                    <<[id |-> 1, order |-> 1], [id |-> 2, order |-> 0]>>,
                    <<[id |-> 2, order |-> 0], [id |-> 1, order |-> 1]>>}

\* the bodies of the update requests
SectionData == {[fields |-> {"title"}, title |-> "s2", order |-> 0]}
BlockData == {[fields |-> {"content"}, content |-> "b", order |-> 0]}

\* the manuals named in the URL
UrlManuals == {1, 2}

\* the EDITOR of team 1 and the owner of team 2 edit through the URLs of
\* both manuals
NextEdit ==
    \/ /\ seq.section <= MaxEditSections
       /\ \E u \in DocRequesters, id \in UrlManuals, parentId \in EditSectionIds \cup {NoId} :
            AddSection(u, id, "s1", parentId)
    \/ /\ seq.block <= MaxBlocks
       /\ \E u \in DocRequesters, id \in UrlManuals, sectionId \in EditSectionIds :
            AddBlock(u, id, sectionId, "BODY", "a")
    \/ \E u \in DocRequesters, id \in UrlManuals, sectionId \in EditSectionIds,
          data \in SectionData : UpdateSection(u, id, sectionId, data)
    \/ \E u \in DocRequesters, id \in UrlManuals, sectionId \in EditSectionIds :
            DeleteSection(u, id, sectionId)
    \/ \E u \in DocRequesters, id \in UrlManuals, blockId \in BlockIds, data \in BlockData :
            UpdateBlock(u, id, blockId, data)
    \/ \E u \in DocRequesters, id \in UrlManuals, blockId \in BlockIds :
            DeleteBlock(u, id, blockId)
    \/ \E u \in DocRequesters, id \in UrlManuals, pairs \in ReorderRequests :
            ReorderSections(u, id, pairs)
    \/ \E u \in DocRequesters, id \in UrlManuals, pairs \in ReorderRequests :
            ReorderBlocks(u, id, pairs)

SpecEdit == InitTwo /\ [][NextEdit]_vars

\* ------------------------------------------------------------ C14
\* the order a new sibling of the rows S is to get: 0 in an empty scope,
\* else one more than the largest order of S
orderAfter(S) ==
    IF S = {} THEN 0
    ELSE (CHOOSE m \in {x.order : x \in S} : \A k \in {x.order : x \in S} : k <= m) + 1

\* the rows S carry the orders 0, 1, ..., n-1, one each
contiguous(S) ==
    /\ {x.order : x \in S} = 0..(Cardinality(S) - 1)
    /\ \A x, y \in S : x.order = y.order => x = y

\* C14: an add-section request answering 200 (the steps that draw a section
\* id; an add-block request draws a block id) creates one section whose
\* order is the largest order among the sections of the same manual and
\* parent plus one, 0 when there is none, and an add-block request does the
\* same among the blocks of the section; so a scope holding the orders
\* 0..n-1 holds 0..n afterwards, and N adds into an empty scope give 0..N-1.
C14_NewSiblingGetsNextOrder ==
    [][/\ seq'.section # seq.section =>
            /\ resp'.op = "addSection" /\ resp'.status = 200
            /\ Cardinality(sections' \ sections) = 1
            /\ sections \subseteq sections'
            /\ \A new \in sections' \ sections :
                LET scope == {x \in sections : /\ x.manualId = new.manualId
                                               /\ x.parentId = new.parentId}
                IN /\ new.order = orderAfter(scope)
                   /\ contiguous(scope) => contiguous(scope \cup {new})
       /\ seq'.block # seq.block =>
            /\ resp'.op = "addBlock" /\ resp'.status = 200
            /\ Cardinality(blocks' \ blocks) = 1
            /\ blocks \subseteq blocks'
            /\ \A new \in blocks' \ blocks :
                LET scope == {b \in blocks : b.sectionId = new.sectionId}
                IN /\ new.order = orderAfter(scope)
                   /\ contiguous(scope) => contiguous(scope \cup {new})]_vars

\* a section was added beside a sibling that a reorder had moved to order 1,
\* and took order 2; two blocks added to one section carry orders 0 and 1
C14_Witness ==
    /\ \E x \in sections, y \in sections :
        /\ x.manualId = y.manualId /\ x.parentId = y.parentId
        /\ x.id < y.id /\ x.order = 1 /\ y.order = 2
    /\ \E b \in blocks, c \in blocks :
        /\ b.sectionId = c.sectionId /\ b.id < c.id /\ b.order = 0 /\ c.order = 1
    /\ resp.op = "addBlock" /\ resp.status = 200

\* ------------------------------------------------------------ C16
\* after holds before with every pair of the request applied: a row named
\* by the request carries the order of the last pair naming it, every other
\* row is as it was
batchApplied(before, after, pairs) ==
    after = {IF \E i \in DOMAIN pairs : pairs[i].id = x.id
             THEN [x EXCEPT !.order =
                    pairs[CHOOSE i \in DOMAIN pairs :
                            /\ pairs[i].id = x.id
                            /\ \A j \in DOMAIN pairs : pairs[j].id = x.id => j <= i].order]
             ELSE x : x \in before}

\* C16: a section or block reorder request either applies every (id, order)
\* pair of its body or changes nothing; it applies them all when it answers
\* 200, and when an id of the body names no row it changes no row.
C16_ReorderAllOrNothing ==
    [][\A u \in DocRequesters, id \in UrlManuals, pairs \in ReorderRequests :
        /\ (resp'.op = "reorderSections" /\ ReorderSections(u, id, pairs)) =>
            /\ batchApplied(sections, sections', pairs) \/ sections' = sections
            /\ resp'.status = 200 => batchApplied(sections, sections', pairs)
            /\ (\E i \in DOMAIN pairs : \A x \in sections : x.id # pairs[i].id) =>
                    sections' = sections
        /\ (resp'.op = "reorderBlocks" /\ ReorderBlocks(u, id, pairs)) =>
            /\ batchApplied(blocks, blocks', pairs) \/ blocks' = blocks
            /\ resp'.status = 200 => batchApplied(blocks, blocks', pairs)
            /\ (\E i \in DOMAIN pairs : \A b \in blocks : b.id # pairs[i].id) =>
                    blocks' = blocks]_vars

\* a block reorder naming block 1 and a missing block 2 has just failed and
\* block 1 keeps its order 0, while the two sections carry the orders a
\* two-pair section reorder gave them
C16_Witness ==
    /\ resp.op = "reorderBlocks" /\ resp.status = 500
    /\ \E b \in blocks : b.id = 1 /\ b.order = 0
    /\ \A b \in blocks : b.id # 2
    /\ \E x \in sections, y \in sections :
        /\ x.id = 1 /\ x.order = 1 /\ y.id = 2 /\ y.order = 0
        /\ x.manualId = y.manualId /\ x.parentId = y.parentId

\* ------------------------------------------------------------ C17
\* C17: a reorder request submitted again right after it answered 200
\* (the rows are as it left them: every named row exists and carries the
\* order of the last pair naming it) and answering 200 again leaves every
\* order value of the sections (or blocks) as the first submission left it.
C17_ReorderIdempotent ==
    [][\A u \in DocRequesters, id \in UrlManuals, pairs \in ReorderRequests :
        /\ (/\ resp = Response("reorderSections", u, 200)
            /\ updatesFound(sections, pairs)
            /\ batchApplied(sections, sections, pairs)
            /\ ReorderSections(u, id, pairs)
            /\ resp'.status = 200) =>
                sections' = sections
        /\ (/\ resp = Response("reorderBlocks", u, 200)
            /\ updatesFound(blocks, pairs)
            /\ batchApplied(blocks, blocks, pairs)
            /\ ReorderBlocks(u, id, pairs)
            /\ resp'.status = 200) =>
                blocks' = blocks]_vars

\* a two-pair reorder of the two sections and of the two blocks has been
\* applied, the block reorder last
C17_Witness ==
    /\ resp.op = "reorderBlocks" /\ resp.status = 200
    /\ \E b \in blocks, c \in blocks : b.id = 1 /\ b.order = 1 /\ c.id = 2 /\ c.order = 0
    /\ \E x \in sections, y \in sections : x.id = 1 /\ x.order = 1 /\ y.id = 2 /\ y.order = 0

\* ------------------------------------------------------- SpecStamp
\* the owner of team 2 and of manual 2 edits through the URLs of both
\* manuals while time passes
NextStamp ==
    \/ /\ seq.section <= MaxEditSections
       /\ \E id \in UrlManuals, parentId \in EditSectionIds \cup {NoId} :
            AddSection(3, id, "s1", parentId)
    \/ /\ seq.block <= MaxBlocks
       /\ \E id \in UrlManuals, sectionId \in EditSectionIds :
            AddBlock(3, id, sectionId, "BODY", "a")
    \/ \E id \in UrlManuals, sectionId \in EditSectionIds, data \in SectionData :
            UpdateSection(3, id, sectionId, data)
    \/ \E id \in UrlManuals, sectionId \in EditSectionIds : DeleteSection(3, id, sectionId)
    \/ \E id \in UrlManuals, blockId \in BlockIds, data \in BlockData :
            UpdateBlock(3, id, blockId, data)
    \/ \E id \in UrlManuals, blockId \in BlockIds : DeleteBlock(3, id, blockId)
    \/ \E id \in UrlManuals, pairs \in ReorderRequests : ReorderSections(3, id, pairs)
    \/ \E id \in UrlManuals, pairs \in ReorderRequests : ReorderBlocks(3, id, pairs)
    \/ TimePasses

SpecStamp == InitTwo /\ [][NextStamp]_vars

\* ------------------------------------------------------------ C18
\* the manuals owning the sections and blocks that differ between the two
\* states: a section's manual, a block's section's manual (the section as
\* it is in whichever state holds it)
manualOfSection(rows, sectionId) ==
    {x.manualId : x \in {y \in rows : y.id = sectionId}}

changedManuals(oldSections, oldBlocks, newSections, newBlocks) ==
    {x.manualId : x \in (oldSections \ newSections) \cup (newSections \ oldSections)}
    \cup UNION {manualOfSection(oldSections \cup newSections, b.sectionId) :
                b \in (oldBlocks \ newBlocks) \cup (newBlocks \ oldBlocks)}

\* C18: a request on a section or block answering 200 that changes a
\* section or block sets updatedAt of each manual owning a changed row to
\* the time of the request and leaves updatedAt of every other manual.
C18_StampsOwningManualOnly ==
    [][(/\ resp'.status = 200
        /\ (sections' # sections \/ blocks' # blocks)) =>
            \A m \in manuals :
                LET after == CHOOSE n \in manuals' : n.id = m.id IN
                IF m.id \in changedManuals(sections, blocks, sections', blocks')
                THEN after.updatedAt = now
                ELSE after.updatedAt = m.updatedAt]_vars

\* ------------------------------------------------------- SpecDepth
\* one section more than the levels allowed
ChainIds == 1..(MaxDepth + 1)

\* the EDITOR and the VIEWER of the team add sections to manual 1, anywhere
\* in its tree, and take and restore snapshots
NextDepth ==
    \/ /\ seq.section <= MaxDepth + 1
       /\ \E u \in DocRequesters, parentId \in ChainIds \cup {NoId} :
            AddSection(u, 1, "s1", parentId)
    \/ seq.version <= MaxVersions /\ \E u \in DocRequesters : CreateVersion(u, 1)
    \/ \E u \in DocRequesters, versionId \in VersionIds : RestoreVersion(u, 1, versionId)

SpecDepth == InitLink /\ [][NextDepth]_vars

\* ------------------------------------------------------------ C15
\* C15: every section has a depth between 1 and 3: 1 without a parent, the
\* parent's depth plus one under a parent, and never more than 3.
C15_DepthWithinThree ==
    \A x \in sections :
        /\ x.depth \in 1..MaxDepth
        /\ x.parentId = NoId => x.depth = 1
        /\ x.parentId # NoId => x.depth = findSection(x.parentId).depth + 1

\* ---------------------------------------------------- SpecVersions
\* the EDITOR of team 1 edits manual 1 and takes and restores snapshots of it
NextVersions ==
    \/ seq.section <= MaxEditSections /\ AddSection(2, 1, "s1", NoId)
    \/ seq.block < MaxBlocks /\ AddBlock(2, 1, 1, "BODY", "a")
    \/ \E data \in SectionData : UpdateSection(2, 1, 1, data)
    \/ \E sectionId \in EditSectionIds : DeleteSection(2, 1, sectionId)
    \/ \E data \in BlockData : UpdateBlock(2, 1, 1, data)
    \/ DeleteBlock(2, 1, 1)
    \/ ReorderSections(2, 1, <<[id |-> 1, order |-> 1]>>)
    \/ ReorderBlocks(2, 1, <<[id |-> 1, order |-> 1]>>)
    \/ seq.version <= MaxVersions + 2 /\ \E u \in DocRequesters : CreateVersion(u, 1)
    \/ \E u \in DocRequesters, versionId \in RestoreVersionIds :
            RestoreVersion(u, 1, versionId)

SpecVersions == InitTwo /\ [][NextVersions]_vars

NextRestore ==
    \/ /\ seq.section <= MaxSections
       /\ \E u \in DocRequesters, parentId \in SectionIds \cup {NoId} :
            AddSection(u, 1, "s1", parentId)
    \/ /\ seq.block <= MaxBlocks
       /\ \E sectionId \in SectionIds : AddBlock(2, 1, sectionId, "BODY", "a")
    \/ seq.version <= MaxVersions + 2 /\ \E u \in DocRequesters : CreateVersion(u, 1)
    \/ \E u \in DocRequesters, versionId \in RestoreVersionIds :
            RestoreVersion(u, 1, versionId)

SpecRestore == InitTwo /\ [][NextRestore]_vars

\* ------------------------------------------------------------ C11
manualText == {[id |-> m.id, title |-> m.title, description |-> m.description] : m \in manuals}

metadataOf(id) ==
    LET manual == findManual(id) IN
    [title |-> manual.title, description |-> manual.description,
     sectionTitles |-> {x.title : x \in {y \in sections : y.manualId = id}}]

\* C12: restoring the snapshot that was just taken of a manual (in
\* particular of a manual that had just been restored from a version v)
\* leaves the manual with the title, description and set of section titles
\* it had when the snapshot was taken.
C12_SnapshotRestoreRoundTrip ==
    [][\A u \in DocRequesters :
        (/\ resp = Response("createVersion", 2, 200)
         /\ RestoreVersion(u, 1, seq.version - 1)) =>
            metadataOf(1)' = metadataOf(1)]_vars

\* version 3 was taken of the added section 1, restored as section 2; version
\* 4 was taken of that restored tree and has just been restored as section 3
C12_Witness ==
    /\ resp = Response("restore", 2, 200)
    /\ \E v \in versions, w \in versions :
        /\ v.id = 3 /\ w.id = 4
        /\ Len(v.content.sections) = 1 /\ v.content.sections[1].id = 1
        /\ Len(w.content.sections) = 1 /\ w.content.sections[1].id = 2
        /\ w.content.sections[1].title = v.content.sections[1].title
    /\ {x.id : x \in sections} = {3}
    /\ metadataOf(1).sectionTitles = {"s1"}

\* ======================================================= internal shares
NoShare == [id |-> NoId, manualId |-> NoId, userId |-> NoId, permission |-> "NONE"]

SharePermissions == {"EDITOR", "VIEWER"}

\* manualShare.findUnique({where: {manualId_userId: {manualId, userId}}})
findShare(manualId, userId) ==
    IF \E x \in shares : x.manualId = manualId /\ x.userId = userId
    THEN CHOOSE x \in shares : x.manualId = manualId /\ x.userId = userId
    ELSE NoShare

\* a share creation that skips the team membership check
addShareStatusAnyUser(u, manual, userId, permission) ==
    IF manual = NoManual THEN 404
    ELSE IF manual.ownerId # u THEN 403
    ELSE IF permission \notin SharePermissions THEN 400
    ELSE IF findShare(manual.id, userId) # NoShare THEN 400
    ELSE 200

\* ----------------------------------- POST /api/manual/[id]/share/team
addShareStatus(u, manual, userId, permission) ==
    IF manual = NoManual THEN 404
    ELSE IF manual.ownerId # u THEN 403
    ELSE IF permission \notin SharePermissions THEN 400
    \* manual.team.members.some(member => member.userId === userId)
    ELSE IF ~ \E member \in members : member.teamId = manual.teamId /\ member.userId = userId
         THEN 400
    ELSE IF findShare(manual.id, userId) # NoShare THEN 400
    ELSE 200

Notification(type, userId, relatedId) ==
    SetToBag({[type |-> type, userId |-> userId, relatedId |-> relatedId]})

AddShare(u, id, userId, permission) ==
    LET status == addShareStatus(u, findManual(id), userId, permission) IN
    /\ u \in users
    /\ resp' = Response("addShare", u, status)
    /\ IF status = 200
       THEN /\ seq.share <= MaxShares
            /\ BagCardinality(notifications) < MaxNotifications
            /\ shares' = shares \cup
                    {[id |-> seq.share, manualId |-> id, userId |-> userId,
                      permission |-> permission]}
            /\ seq' = [seq EXCEPT !.share = @ + 1]
            /\ notifications' = notifications (+) Notification("MANUAL_SHARED", userId, id)
       ELSE UNCHANGED <<shares, seq, notifications>>
    /\ UNCHANGED <<teamVars, editor, manuals, versions, links, sections, blocks, body, reqs>>

\* ---------------------------- PUT /api/manual/[id]/share/team/[shareId]
shareOf(shareId, id) ==
    IF \E x \in shares : x.id = shareId /\ x.manualId = id
    THEN CHOOSE x \in shares : x.id = shareId /\ x.manualId = id
    ELSE NoShare

manageShareStatus(u, manual, share, permission) ==
    IF manual = NoManual THEN 404
    ELSE IF manual.ownerId # u THEN 403
    ELSE IF permission \notin SharePermissions THEN 400
    \* update and delete throw when no row matches {id: shareId, manualId: id}
    ELSE IF share = NoShare THEN 500
    ELSE 200

UpdateShare(u, id, shareId, permission) ==
    LET share == shareOf(shareId, id)
        status == manageShareStatus(u, findManual(id), share, permission)
    IN
    /\ u \in users
    /\ resp' = Response("updateShare", u, status)
    /\ IF status = 200
       THEN /\ BagCardinality(notifications) < MaxNotifications
            /\ shares' = (shares \ {share}) \cup {[share EXCEPT !.permission = permission]}
            /\ notifications' = notifications (+)
                    Notification("PERMISSION_CHANGED", share.userId, id)
       ELSE UNCHANGED <<shares, notifications>>
    /\ UNCHANGED <<teamVars, editor, manuals, versions, links, sections, blocks, seq, body, reqs>>

\* ------------------------- DELETE /api/manual/[id]/share/team/[shareId]
RemoveShare(u, id, shareId) ==
    LET share == shareOf(shareId, id)
        status == manageShareStatus(u, findManual(id), share, "VIEWER")
    IN
    /\ u \in users
    /\ resp' = Response("removeShare", u, status)
    /\ IF status = 200
       THEN shares' = shares \ {share}
       ELSE UNCHANGED shares
    /\ UNCHANGED <<teamVars, editor, manuals, versions, links, sections, blocks, notifications,
                   seq, body, reqs>>

\* --------------------------------------------------------- SpecShare
ShareIds == 1..MaxShares

InitShare == InitDoc("t1", "d1")

NextShare ==
    \/ \E u \in UserIds, userId \in UserIds, permission \in SharePermissions \cup {"OWNER"} :
            AddShare(u, 1, userId, permission)
    \/ \E u \in UserIds, shareId \in ShareIds, permission \in SharePermissions :
            UpdateShare(u, 1, shareId, permission)
    \/ \E u \in UserIds, shareId \in ShareIds : RemoveShare(u, 1, shareId)
    \/ \E u \in UserIds, id \in MemberIds : RemoveMember(u, id)

SpecShare == InitShare /\ [][NextShare]_vars

\* ------------------------------------------------------------ C9
\* C9: a share row is written only for a request of the manual's owner
\* naming a current member of the manual's team who has no share of the
\* manual yet; a request answered 200 writes that one share and exactly one
\* MANUAL_SHARED notification for the grantee, any other answer writes
\* neither; and no (manual, user) pair ever has two ManualShare rows.
C9_ShareOnlyByOwnerToMember ==
    /\ [](\A x, y \in shares : (x.manualId = y.manualId /\ x.userId = y.userId) => x = y)
    /\ [][\A u \in UserIds, userId \in UserIds, permission \in SharePermissions \cup {"OWNER"} :
            AddShare(u, 1, userId, permission) =>
                LET manual == findManual(1) IN
                /\ shares' # shares =>
                    /\ manual.ownerId = u
                    /\ \E m \in members : m.teamId = manual.teamId /\ m.userId = userId
                    /\ ~ \E x \in shares : x.manualId = 1 /\ x.userId = userId
                /\ resp'.status = 200 =>
                    /\ \E x \in shares' \ shares :
                        /\ shares' = shares \cup {x}
                        /\ x.manualId = 1 /\ x.userId = userId /\ x.permission = permission
                    /\ notifications' = notifications (+)
                            Notification("MANUAL_SHARED", userId, 1)
                /\ resp'.status # 200 =>
                    shares' = shares /\ notifications' = notifications]_vars

\* the owner has just been refused a share for a user who left the team,
\* after sharing with a member
C9_Witness ==
    /\ resp = Response("addShare", 1, 400)
    /\ shares # {}
    /\ BagCardinality(notifications) >= 1
    /\ \E u \in users :
        /\ ~ \E m \in members : m.userId = u
        /\ ~ \E x \in shares : x.userId = u

\* ================================================================ search
\* the characters of the texts the model stores
chars(text) ==
    CASE text = "s1" -> <<"s", "1">>
      [] text = "s2" -> <<"s", "2">>
      [] text = "t1" -> <<"t", "1">>
      [] text = "t2" -> <<"t", "2">>
      [] text = "d1" -> <<"d", "1">>
      [] text = "d2" -> <<"d", "2">>
      [] text = "a" -> <<"a">>
      [] text = "b" -> <<"b">>
      [] OTHER -> <<>>

\* query.trim()
RECURSIVE trim(_)
trim(query) ==
    IF query = <<>> THEN query
    ELSE IF Head(query) = " " THEN trim(Tail(query))
    ELSE IF query[Len(query)] = " " THEN trim(SubSeq(query, 1, Len(query) - 1))
    ELSE query

\* {contains: searchQuery}: a NULL column matches nothing
contains(text, searchQuery) ==
    /\ text # Null
    /\ \E i \in 0..(Len(chars(text)) - Len(searchQuery)) :
        SubSeq(chars(text), i + 1, i + Len(searchQuery)) = searchQuery

\* the manuals the user owns, those of the user's teams, those shared with
\* the user
accessibleManualIds(u) ==
    LET teamIds == {tm.teamId : tm \in {x \in members : x.userId = u}} IN
    {m.id : m \in {x \in manuals :
        \/ x.ownerId = u
        \/ x.teamId \in teamIds
        \/ \E share \in shares : share.manualId = x.id /\ share.userId = u}}

\* select: {parent: {select: {id, title}}}: null without a parent
parentOf(section) ==
    IF section.parentId = NoId THEN [id |-> NoId, title |-> ""]
    ELSE [id |-> findSection(section.parentId).id,
          title |-> findSection(section.parentId).title]

NoResults(u) == [kind |-> "search", userId |-> u, manuals |-> {}, sections |-> {}, blocks |-> {}]

\* ------------------------------------------------ GET /api/search?q=
Search(u, query) ==
    LET searchQuery == trim(query)
        manualIds == accessibleManualIds(u)
    IN
    /\ u \in users
    /\ resp' = Response("search", u, 200)
    /\ body' =
        IF searchQuery = <<>> \/ manualIds = {} THEN NoResults(u)
        ELSE [kind |-> "search", userId |-> u,
              manuals |-> {[id |-> m.id, title |-> m.title] :
                            m \in {x \in manuals :
                                /\ x.id \in manualIds
                                /\ \/ contains(x.title, searchQuery)
                                   \/ contains(x.description, searchQuery)}},
              sections |-> {[id |-> x.id, title |-> x.title, manualId |-> x.manualId,
                             parent |-> parentOf(x)] :
                            x \in {y \in sections :
                                /\ y.manualId \in manualIds
                                /\ contains(y.title, searchQuery)}},
              blocks |-> {[id |-> b.id, sectionId |-> b.sectionId,
                           manualId |-> findSection(b.sectionId).manualId] :
                            b \in {c \in blocks :
                                /\ findSection(c.sectionId).manualId \in manualIds
                                /\ contains(c.content, searchQuery)}}]
    /\ UNCHANGED <<teamVars, editor, manualVars, notifications, seq, reqs>>

\* ------------------------------------------------------ SpecSearch
Queries == {<<>>, <<" ">>, <<"s">>, <<" ", "1">>, <<"a", " ">>, <<"2">>}

\* the EDITOR of team 1 and the owner of team 2 add sections and blocks,
\* the owner of team 1 shares manual 1 with the EDITOR and removes the
\* EDITOR from the team, and everybody searches
NextSearch ==
    \/ /\ seq.section <= MaxEditSections
       /\ \E u \in DocRequesters, id \in UrlManuals, parentId \in EditSectionIds \cup {NoId} :
            AddSection(u, id, "s1", parentId)
    \/ /\ seq.block < MaxBlocks
       /\ \E u \in DocRequesters, id \in UrlManuals, sectionId \in EditSectionIds :
            AddBlock(u, id, sectionId, "BODY", "a")
    \/ AddShare(1, 1, 2, "VIEWER")
    \/ RemoveMember(1, 2)
    \/ \E u \in UserIds, query \in Queries : Search(u, query)

SpecSearch == InitTwo /\ [][NextSearch]_vars

\* ------------------------------------------------------------ C19
\* the manuals the claim lets a user's results come from
mayAccess(u, manualId) ==
    \E m \in manuals :
        /\ m.id = manualId
        /\ \/ m.ownerId = u
           \/ \E tm \in members : tm.userId = u /\ tm.teamId = m.teamId
           \/ \E share \in shares : share.userId = u /\ share.manualId = m.id

\* the manual, section and block rows of the response are of manuals the
\* user may access
searchRowsConfined ==
    body.kind = "search" =>
        /\ \A m \in body.manuals : mayAccess(body.userId, m.id)
        /\ \A x \in body.sections : mayAccess(body.userId, x.manualId)
        /\ \A b \in body.blocks : mayAccess(body.userId, b.manualId)

\* the parent carried by a section of the response is a section of a
\* manual the user may access
searchParentsConfined ==
    body.kind = "search" =>
        \A x \in body.sections :
            x.parent.id # NoId => mayAccess(body.userId, findSection(x.parent.id).manualId)

\* C19: every manual, section and block a search returns to a user, the
\* parent section carried by a section result included, belongs to a manual
\* the user owns, a manual of a team of the user, or a manual shared with
\* the user at the time of the search.
C19_SearchConfined ==
    [][resp'.op = "search" => (searchRowsConfined /\ searchParentsConfined)']_vars

\* the same for the manual, section and block rows alone
C19_RowsConfined ==
    [][resp'.op = "search" => searchRowsConfined']_vars

\* ============================= PUT /api/manual/[id]/block/[blockId], by steps
PutRequest(u, id, blockId, content) ==
    [op |-> "updateBlock", user |-> u, id |-> id, blockId |-> blockId,
     content |-> content, pc |-> "find", manual |-> NoManual]

\* a request arrives
PutArrive(slot, u, id, blockId, content) ==
    /\ reqs[slot] = Idle
    /\ u \in users
    /\ reqs' = [reqs EXCEPT ![slot] = PutRequest(u, id, blockId, content)]
    /\ UNCHANGED <<teamVars, editor, manualVars, notifications, seq, resp, body>>

\* contentBlock.findUnique({where: {id: blockId}, include: {section: {manual}}})
PutFind(slot) ==
    LET r == reqs[slot]
        block == findBlock(r.blockId)
    IN
    /\ r # Idle /\ r.pc = "find"
    /\ IF block = NoBlock
       THEN Respond(slot, 404)
       ELSE /\ reqs' = [reqs EXCEPT ![slot].pc = "permission",
                                    ![slot].manual = findManual(findSection(block.sectionId).manualId)]
            /\ UNCHANGED resp
    /\ UNCHANGED <<teamVars, editor, manualVars, notifications, seq, body>>

\* teamMember.findFirst and the canEdit test
PutPermission(slot) ==
    LET r == reqs[slot] IN
    /\ r # Idle /\ r.pc = "permission"
    /\ \E teamMember \in teamMembersOf(r.user, r.manual) :
        IF ~ inlineCanEdit(r.manual, teamMember, r.user)
        THEN Respond(slot, 403)
        ELSE Goto(slot, "update") /\ UNCHANGED resp
    /\ UNCHANGED <<teamVars, editor, manualVars, notifications, seq, body>>

\* contentBlock.update({where: {id: blockId}, data: validatedData}); it
\* throws when the row is gone
PutUpdate(slot) ==
    LET r == reqs[slot]
        block == findBlock(r.blockId)
    IN
    /\ r # Idle /\ r.pc = "update"
    /\ IF block = NoBlock
       THEN Respond(slot, 500) /\ UNCHANGED blocks
       ELSE /\ blocks' = (blocks \ {block}) \cup
                {blockWithData(block, [fields |-> {"content"}, content |-> r.content,
                                       order |-> 0])}
            /\ Goto(slot, "stamp")
            /\ UNCHANGED resp
    /\ UNCHANGED <<teamVars, editor, manuals, versions, shares, links, sections, notifications,
                   seq, body>>

\* manual.update({where: {id}, data: {updatedAt: new Date()}}) and the answer
PutStamp(slot) ==
    LET r == reqs[slot] IN
    /\ r # Idle /\ r.pc = "stamp"
    /\ manuals' = touch(r.id)
    /\ Respond(slot, stampStatus(r.id))
    /\ UNCHANGED <<teamVars, editor, versions, shares, links, sections, blocks, notifications,
                   seq, body>>

\* ---------------------------------------------------------- SpecPut
PutContents == {"b", "c"}

\* manual 1 of team 1 with one section holding one block; no request yet
InitPut ==
    /\ users = UserIds
    /\ credentials = [u \in UserIds |-> Account(bcryptHash(SignupPassword))]
    /\ editor = NoEditor
    /\ teams = {[id |-> 1, ownerId |-> 1]}
    /\ members = {[id |-> u, userId |-> u, teamId |-> 1,
                   role |-> IF u = 1 THEN "OWNER" ELSE IF u = 2 THEN "EDITOR" ELSE "VIEWER"] :
                    u \in UserIds}
    /\ invitations = {}
    /\ clock = 0
    /\ now = 0
    /\ LET manual == [id |-> 1, ownerId |-> 1, teamId |-> 1, title |-> "t1",
                      description |-> "d1", updatedAt |-> 0]
       IN /\ manuals = {manual}
          /\ versions = {[id |-> 1, manualId |-> 1, content |-> InitialVersionContent(manual)]}
    /\ notifications = EmptyBag
    /\ shares = {}
    /\ links = {}
    /\ sections = {[id |-> 1, manualId |-> 1, title |-> "s1", order |-> 0, depth |-> 1,
                    parentId |-> NoId]}
    /\ blocks = {[id |-> 1, sectionId |-> 1, type |-> "BODY", content |-> "a", order |-> 0]}
    /\ seq = [FirstIds EXCEPT !.team = 2, !.member = MaxUsers + 1, !.manual = 2,
                              !.version = 2, !.section = 2, !.block = 2]
    /\ resp = Response("none", NoId, 0)
    /\ body = NoBody
    /\ reqs = [slot \in Slots |-> Idle]

NextPut ==
    \/ \E slot \in Slots, u \in UserIds, blockId \in BlockIds, content \in PutContents :
            PutArrive(slot, u, 1, blockId, content)
    \/ \E slot \in Slots : PutFind(slot)
    \/ \E slot \in Slots : PutPermission(slot)
    \/ \E slot \in Slots : PutUpdate(slot)
    \/ \E slot \in Slots : PutStamp(slot)
    \/ TimePasses

SpecPut == InitPut /\ [][NextPut]_vars

\* ------------------------------------------------------------ C20
\* the user may edit the manual of block blockId
authorised(u, blockId) ==
    \E m \in manuals :
        /\ m.id = findSection(findBlock(blockId).sectionId).manualId
        /\ \/ m.ownerId = u
           \/ \E tm \in members :
                tm.userId = u /\ tm.teamId = m.teamId /\ tm.role \in {"OWNER", "EDITOR"}

\* C20: with PUT requests on one block in flight together, every request
\* of a user who may edit answers 200, and the stored content changes only
\* when a request's write is applied, to the content of that request: after
\* two concurrent requests with contents X and Y the block holds the content
\* of the write applied last, never another value.
C20_LastWriteWins ==
    [][\A slot \in Slots :
        /\ (reqs[slot] # Idle /\ reqs'[slot] = Idle
                /\ authorised(reqs[slot].user, reqs[slot].blockId)) =>
            resp' = Response("updateBlock", reqs[slot].user, 200)
        /\ (reqs[slot] # Idle /\ reqs[slot].pc = "update" /\ reqs'[slot] # reqs[slot]) =>
            /\ findBlock(reqs[slot].blockId)'.content = reqs[slot].content
            /\ \A b \in blocks' : \E c \in blocks :
                    c.id = b.id /\ (b = c \/ (b.id = reqs[slot].blockId
                                              /\ b = [c EXCEPT !.content = reqs[slot].content]))
        /\ (\A other \in Slots :
                ~ (reqs[other] # Idle /\ reqs[other].pc = "update"
                    /\ reqs'[other] # reqs[other])) =>
            blocks' = blocks]_vars

\* the owner's request with content "b" and the editor's with content "c"
\* are both past their write and before their answer, and the block holds
\* "b": the owner's write came last
C20_Witness ==
    /\ reqs[1] # Idle /\ reqs[2] # Idle
    /\ reqs[1].pc = "stamp" /\ reqs[2].pc = "stamp"
    /\ reqs[1].user = 1 /\ reqs[1].content = "b"
    /\ reqs[2].user = 2 /\ reqs[2].content = "c"
    /\ reqs[1].blockId = 1 /\ reqs[2].blockId = 1
    /\ findBlock(1).content = "b"

\* ------------------------------------------------------------ C22
\* the user may edit the manual: its owner, or an OWNER or EDITOR of its team
mayEdit(u, m) ==
    \/ m.ownerId = u
    \/ \E tm \in members : tm.userId = u /\ tm.teamId = m.teamId /\ tm.role \in {"OWNER", "EDITOR"}

\* the sections of manual id and the blocks of those sections
treeOf(id, sectionRows, blockRows) ==
    [sections |-> {x \in sectionRows : x.manualId = id},
     blocks |-> {b \in blockRows : \E x \in sectionRows : x.id = b.sectionId /\ x.manualId = id}]

\* C22: a request of a user changes no section and no block of a manual the
\* user may not edit, whichever manual its URL names: reorder changes only
\* rows of the manual of the URL and add-block creates a block only in a
\* section of that manual.
C22_OnlyOwnManualChanges ==
    [][\A m \in manuals :
        ~ mayEdit(resp'.user, m) =>
            treeOf(m.id, sections', blocks') = treeOf(m.id, sections, blocks)]_vars

\* ------------------------------------------------------------ C23
\* the conditions the claim puts on an acceptance besides the expiry, which
\* is judged when the handler reads the invitation
acceptAdmissible(u, invitation) ==
    /\ invitation # NoInvitation
    /\ invitation.status = "PENDING"
    /\ Email(u) = invitation.email
    /\ ~ \E m \in members : m.userId = u

\* the status of the invitation of the token once the step is taken
statusAfter(token) ==
    IF \E i \in invitations' : i.id = token
    THEN (CHOOSE i \in invitations' : i.id = token).status
    ELSE "NONE"

\* the step creates a TeamMember row or marks the invitation ACCEPTED
acceptWrites(token) ==
    \/ members' # members
    \/ statusAfter(token) = "ACCEPTED" /\ findInvitation(token).status # "ACCEPTED"

\* C23: a step of POST /api/invite/{token} that creates a TeamMember row or
\* marks the invitation ACCEPTED does both at once, the row being the
\* requester's with the team and role of the invitation, and is taken only
\* when the invitation exists, is PENDING, carries the requester's email and
\* the requester has no TeamMember row; a request that reads the invitation
\* missing or past its expiry ends there and does neither.
C23_AcceptOnlyWhenAdmissible ==
    [][\A slot \in Slots :
        LET r == reqs[slot]
            invitation == findInvitation(r.token)
        IN (r.op = "accept" /\ reqs'[slot] # r) =>
            /\ (r.pc = "start" /\ (invitation = NoInvitation \/ isExpired(invitation)))
                    => (reqs'[slot] = Idle /\ ~ acceptWrites(r.token))
            /\ acceptWrites(r.token) =>
                /\ acceptAdmissible(r.user, invitation)
                /\ statusAfter(r.token) = "ACCEPTED"
                /\ \E m \in members' :
                    /\ m \notin members
                    /\ members' = members \cup {m}
                    /\ m.userId = r.user
                    /\ m.teamId = invitation.teamId
                    /\ m.role = invitation.role]_vars

\* ------------------------------------------------------------ C24
\* C24: a step that gives a user a TeamMember row in an existing team (by the
\* accept endpoint or by signup with an invitationToken) is taken only when
\* that team has issued an invitation to the user's own email.
C24_MemberOnlyByOwnInvitation ==
    [][teams' = teams =>
        \A m \in members' \ members :
            \E i \in invitations : i.teamId = m.teamId /\ i.email = Email(m.userId)]_vars

\* ------------------------------------------------------------ C28
\* C28: an invitation that is ACCEPTED is still ACCEPTED after every step
\* that leaves its row in place, also once its expiry has passed, and an
\* invitation that is not PENDING does not become PENDING.
C28_AcceptedStaysAccepted ==
    [][\A i \in invitations :
        (\E j \in invitations' : j.id = i.id) =>
            /\ i.status = "ACCEPTED" => statusAfter(i.id) = "ACCEPTED"
            /\ i.status # "PENDING" => statusAfter(i.id) # "PENDING"]_vars

\* ------------------------------------------------------------ C29
\* C29: in every reachable state the user a team names as its ownerId has a
\* TeamMember row in that team with role OWNER.
C29_TeamOwnerIsOwnerMember ==
    \A team \in teams :
        \E m \in members :
            m.userId = team.ownerId /\ m.teamId = team.id /\ m.role = "OWNER"

\* ============================================== GET /api/manual/[id]
\* 404 without the manual, 403 for a user who is neither its owner, nor
\* holds a share of it, nor is a member of its team
viewStatus(manual, isOwner, hasShare, teamMember) ==
    IF manual = NoManual THEN 404
    ELSE IF ~ isOwner /\ ~ hasShare /\ teamMember = NoMember THEN 403
    ELSE 200

\* "Determine user's permission": VIEWER unless a branch says otherwise;
\* share is manual.shares[0], the requester's share of the manual
viewPermission(isOwner, teamMember, share) ==
    IF isOwner \/ teamMember.role = "OWNER" THEN "OWNER"
    ELSE IF teamMember.role = "EDITOR" THEN "EDITOR"
    ELSE IF share # NoShare THEN share.permission
    ELSE "VIEWER"

GetManual(u, id) ==
    LET manual == findManual(id)
        share == findShare(id, u)
        isOwner == manual.ownerId = u
    IN
    /\ u \in users
    /\ \E teamMember \in findFirstMemberIn(u, manual.teamId) :
        LET status == viewStatus(manual, isOwner, share # NoShare, teamMember) IN
        /\ resp' = Response("getManual", u, status)
        /\ body' = IF status = 200
                   THEN [kind |-> "view", userId |-> u, manualId |-> id,
                         permission |-> viewPermission(isOwner, teamMember, share)]
                   ELSE [kind |-> "refused", userId |-> u, manualId |-> id]
    /\ UNCHANGED <<teamVars, editor, manualVars, notifications, seq, reqs>>

\* --------------------------------------------------------- SpecView
\* every combination of ownership, team role and share, and every view of it
NextView == \E u \in UserIds, id \in ManualIds : GetManual(u, id)

SpecView == InitPerm /\ [][NextView]_vars

\* ------------------------------------------------------------ C26
\* C26: the permission GET /api/manual/{id} reports to a user it lets view
\* the manual is the permission checkManualPermission computes for that user
\* and manual from the same ownership, team-role and share rows.
C26_ViewMatchesCheckManualPermission ==
    body.kind = "view" =>
        \A result \in checkManualPermission(body.userId, body.manualId) :
            result.permission = body.permission

\* ============================================ GET /api/manual/[id]/share
\* "only owner can manage sharing"
listSharesStatus(u, manual) ==
    IF manual = NoManual THEN 404
    ELSE IF manual.ownerId # u THEN 403
    ELSE 200

ListShares(u, id) ==
    /\ u \in users
    /\ resp' = Response("listShares", u, listSharesStatus(u, findManual(id)))
    /\ UNCHANGED <<teamVars, editor, manualVars, notifications, seq, body, reqs>>

\* -------------------------------------------------------- SpecSharing
\* The team of the scenario of a member's manual: user 1 created team 1 and
\* is its OWNER, user 2 is an EDITOR and created manual 1, user 3 is a VIEWER.
InitSharing ==
    /\ users = UserIds
    /\ credentials = [u \in UserIds |-> Account(bcryptHash(SignupPassword))]
    /\ editor = NoEditor
    /\ teams = {[id |-> 1, ownerId |-> 1]}
    /\ members = {[id |-> u, userId |-> u, teamId |-> 1,
                   role |-> IF u = 1 THEN "OWNER" ELSE IF u = 2 THEN "EDITOR" ELSE "VIEWER"] :
                    u \in UserIds}
    /\ invitations = {}
    /\ clock = 0
    /\ now = 0
    /\ LET manual == [id |-> 1, ownerId |-> 2, teamId |-> 1, title |-> "t1",
                      description |-> Null, updatedAt |-> 0]
       IN /\ manuals = {manual}
          /\ versions = {[id |-> 1, manualId |-> 1, content |-> InitialVersionContent(manual)]}
    /\ notifications = EmptyBag
    /\ shares = {}
    /\ links = {}
    /\ sections = {}
    /\ blocks = {}
    /\ seq = [FirstIds EXCEPT !.team = 2, !.member = MaxUsers + 1, !.manual = 2, !.version = 2]
    /\ resp = Response("none", NoId, 0)
    /\ body = NoBody
    /\ reqs = <<>>

NextSharing ==
    \/ \E u \in UserIds : ListShares(u, 1)
    \/ \E u \in UserIds, userId \in UserIds, permission \in SharePermissions :
            AddShare(u, 1, userId, permission)
    \/ \E u \in UserIds, shareId \in ShareIds, permission \in SharePermissions :
            UpdateShare(u, 1, shareId, permission)
    \/ \E u \in UserIds, shareId \in ShareIds : RemoveShare(u, 1, shareId)
    \/ \E u \in UserIds, accessType \in {"TITLE_ONLY", "FULL_ACCESS"} :
            CreateLink(u, 1, accessType, "none")
    \/ \E u \in UserIds, linkId \in LinkIds, isActive \in BOOLEAN :
            ToggleLink(u, 1, linkId, isActive)

SpecSharing == InitSharing /\ [][NextSharing]_vars

\* ------------------------------------------------------------ C27
\* the step answers a request to a sharing endpoint
sharingOps == {"listShares", "addShare", "updateShare", "removeShare", "createLink",
               "toggleLink"}

\* C27: a sharing endpoint of a manual lets a requester past its permission
\* check (answers neither 403 nor 404) exactly when checkManualPermission
\* gives the requester canShare = true for the manual.
C27_SharingAcceptsByCanShare ==
    [][resp'.op \in sharingOps =>
        \A result \in checkManualPermission(resp'.user, 1) :
            (resp'.status \notin {403, 404}) = result.canShare]_vars

\* ================================================= password reset
\* ------------------------------------- POST /api/auth/request-reset
\* a user's token is fresh (crypto.randomBytes) and expires after a delay
RequestReset(email) ==
    /\ IF email \in users
       THEN /\ seq.token <= MaxResetTokens
            /\ credentials' = [credentials EXCEPT ![email].resetToken = seq.token,
                                                  ![email].resetTokenExpiry = "future"]
            /\ seq' = [seq EXCEPT !.token = @ + 1]
       ELSE UNCHANGED <<credentials, seq>>
    \* Always return success to prevent email enumeration
    /\ resp' = Response("requestReset", NoId, 200)
    /\ UNCHANGED <<users, editor, teams, members, invitations, clock, now, manualVars,
                   notifications,
                   body, reqs>>

\* time passes a user's resetTokenExpiry
ResetTokenExpires(u) ==
    /\ u \in users
    /\ credentials[u].resetTokenExpiry = "future"
    /\ credentials' = [credentials EXCEPT ![u].resetTokenExpiry = "past"]
    /\ UNCHANGED <<users, editor, teams, members, invitations, clock, now, manualVars,
                   notifications,
                   seq, resp, body, reqs>>

\* ------------------------------------- POST /api/auth/reset-password
\* Each database statement of the handler is one step: the $transaction is
\* given no isolationLevel, and the default level of the database lets the
\* statements of two transactions interleave.
ResetArrive(slot, token, newPassword) ==
    /\ reqs[slot] = Idle
    /\ reqs' = [reqs EXCEPT ![slot] =
                    [op |-> "reset", user |-> NoId, token |-> token, pc |-> "start",
                     invitation |-> NoInvitation, newPassword |-> newPassword]]
    /\ UNCHANGED <<teamVars, editor, manualVars, notifications, seq, resp, body>>

\* user.findFirst({where: {resetToken, resetTokenExpiry: {gte: new Date()}}})
usersWithValidToken(token) ==
    {u \in users : credentials[u].resetToken = token
                   /\ credentials[u].resetTokenExpiry = "future"}

ResetFind(slot) ==
    LET r == reqs[slot] IN
    /\ r.op = "reset" /\ r.pc = "start"
    /\ IF usersWithValidToken(r.token) = {}
       THEN Respond(slot, 400)
       ELSE /\ \E user \in usersWithValidToken(r.token) :
                reqs' = [reqs EXCEPT ![slot].user = user, ![slot].pc = "check"]
            /\ UNCHANGED resp
    /\ UNCHANGED <<teamVars, editor, manualVars, notifications, seq, body>>

\* the transaction's "Check token is still valid"
tokenStillValid(currentUser, token) ==
    /\ currentUser.resetToken = token
    /\ currentUser.resetTokenExpiry # Null
    /\ currentUser.resetTokenExpiry # "past"

\* tx.user.findUnique and the throw that rolls the transaction back
ResetCheck(slot) ==
    LET r == reqs[slot] IN
    /\ r.op = "reset" /\ r.pc = "check"
    /\ IF ~ tokenStillValid(credentials[r.user], r.token)
       THEN Respond(slot, 500)
       ELSE Goto(slot, "update") /\ UNCHANGED resp
    /\ UNCHANGED <<teamVars, editor, manualVars, notifications, seq, body>>

\* tx.user.update: the new password, and the token cleared
ResetUpdate(slot) ==
    LET r == reqs[slot] IN
    /\ r.op = "reset" /\ r.pc = "update"
    /\ credentials' = [credentials EXCEPT ![r.user] = Account(bcryptHash(r.newPassword))]
    /\ Respond(slot, 200)
    /\ UNCHANGED <<users, editor, teams, members, invitations, clock, now, manualVars,
                   notifications,
                   seq, body>>

\* --------------------------------------------------------- SpecReset
ResetTokens == 1..MaxResetTokens
NewPasswords == {"p1", "p2"}

InitReset ==
    /\ users = {1, 2}
    /\ credentials = [u \in {1, 2} |-> Account(bcryptHash(SignupPassword))]
    /\ editor = NoEditor
    /\ teams = {}
    /\ members = {}
    /\ invitations = {}
    /\ clock = 0
    /\ now = 0
    /\ manuals = {}
    /\ versions = {}
    /\ notifications = EmptyBag
    /\ shares = {}
    /\ links = {}
    /\ sections = {}
    /\ blocks = {}
    /\ seq = FirstIds
    /\ resp = Response("none", NoId, 0)
    /\ body = NoBody
    /\ reqs = [slot \in Slots |-> Idle]

NextReset ==
    \/ \E email \in UserIds : RequestReset(email)
    \/ \E u \in UserIds : ResetTokenExpires(u)
    \/ \E slot \in Slots, token \in ResetTokens, newPassword \in NewPasswords :
            ResetArrive(slot, token, newPassword)
    \/ \E slot \in Slots : ResetFind(slot)
    \/ \E slot \in Slots : ResetCheck(slot)
    \/ \E slot \in Slots : ResetUpdate(slot)

SpecReset == InitReset /\ [][NextReset]_vars

\* ------------------------------------------------------------ C25
\* C25: a step of a reset request that changes a user's password is taken
\* only while the request's token is that user's reset token, and it clears
\* the token; a request that finds no user with its token, or finds the token
\* past its expiry, ends there. One token is issued in all, so that the
\* stored token differs from a request's token only once a reset with that
\* token has succeeded: every token changes the password at most once,
\* however the requests carrying it interleave.
C25_ResetTokenSingleUse ==
    [][\A slot \in Slots :
        LET r == reqs[slot] IN
        (r.op = "reset" /\ reqs'[slot] # r) =>
            /\ (r.pc = "start" /\ usersWithValidToken(r.token) = {}) => reqs'[slot] = Idle
            /\ \A u \in users :
                credentials'[u].password # credentials[u].password =>
                    /\ credentials[u].resetToken = r.token
                    /\ credentials'[u].resetToken = NoToken]_vars

\* ===================================================== the manual editor
\* The editor page of one user on manual 1. A React state is what the last
\* setState call left; a callback sees the state of the render that created
\* it. Durations are not modelled: the order of a pending render and a
\* pending timer is left open.
EditorUser == 2
OtherUser == 1
EditorBlocks == 1..MaxBlocks

\* the initial pendingChanges; blocks is a Map, kept in insertion order as a
\* sequence of [id, content]; no call of setPendingChanges adds to deletedBlocks
NoChanges == [blocks |-> <<>>, deletedBlocks |-> {}]

\* pendingChanges.blocks.size === 0 && pendingChanges.deletedBlocks.size === 0
nothingPending(pendingChanges) ==
    Len(pendingChanges.blocks) = 0 /\ pendingChanges.deletedBlocks = {}

\* newBlocks.set(blockId, content): a key already in the Map keeps its place
mapSet(m, blockId, content) ==
    IF \E i \in DOMAIN m : m[i].id = blockId
    THEN [i \in DOMAIN m |->
            IF m[i].id = blockId THEN [id |-> blockId, content |-> content] ELSE m[i]]
    ELSE Append(m, [id |-> blockId, content |-> content])

\* saveTimerRef: no timeout pending
NoTimer == [set |-> FALSE, closure |-> NoChanges]

\* setTimeout(() => savePendingChanges(), 3000): the callback keeps the
\* savePendingChanges of the render that created scheduleAutoSave
timerOf(rendered) == [set |-> TRUE, closure |-> rendered]

\* the sequence without its i-th element
without(q, i) == [j \in 1..(Len(q) - 1) |-> IF j < i THEN q[j] ELSE q[j + 1]]

\* savePendingChanges() of a render whose pendingChanges was p: nothing for
\* no changes, else 'saving' and the PUT requests of p.blocks, one by one
savePendingChanges(e, p) ==
    IF nothingPending(p) THEN e
    ELSE [e EXCEPT !.saveStatus = "saving", !.saves = Append(@, p.blocks)]

\* handleUpdateBlock: the local content, the pending change, and
\* scheduleAutoSave() of the last render
handleUpdateBlock(blockId, content) ==
    /\ editor.page = "open"
    /\ editor' = [editor EXCEPT
                    !.content[blockId] = content,
                    !.pendingChanges.blocks = mapSet(@, blockId, content),
                    !.stale = TRUE,
                    !.saveStatus = "unsaved",
                    !.timer = timerOf(editor.rendered)]
    /\ UNCHANGED <<users, credentials, teams, members, invitations, clock, now, manualVars,
                   notifications, seq, resp, body, reqs>>

\* the render after setPendingChanges: new callbacks, and the cleanup of the
\* effect on [pendingChanges, savePendingChanges], which clears the timeout
Render ==
    /\ editor.page = "open"
    /\ editor.stale
    /\ editor' = [editor EXCEPT !.rendered = editor.pendingChanges,
                                !.stale = FALSE,
                                !.timer = NoTimer]
    /\ UNCHANGED <<users, credentials, teams, members, invitations, clock, now, manualVars,
                   notifications, seq, resp, body, reqs>>

\* the timeout of scheduleAutoSave fires
TimerFires ==
    /\ editor.page = "open"
    /\ editor.timer.set
    /\ Len(editor.saves) < MaxSaves
    /\ editor' = savePendingChanges([editor EXCEPT !.timer = NoTimer], editor.timer.closure)
    /\ UNCHANGED <<users, credentials, teams, members, invitations, clock, now, manualVars,
                   notifications, seq, resp, body, reqs>>

\* handleBeforeUnload of the effect of the last render; the user stays
BeforeUnload ==
    /\ editor.page = "open"
    /\ ~ nothingPending(editor.rendered)
    /\ Len(editor.saves) < MaxSaves
    /\ editor' = savePendingChanges(editor, editor.rendered)
    /\ UNCHANGED <<users, credentials, teams, members, invitations, clock, now, manualVars,
                   notifications, seq, resp, body, reqs>>

\* the next await fetch(...) of the i-th save in flight returns. Answered, the
\* server has handled the PUT as UpdateBlock does, and the fetch resolves
\* with whatever status: the loop goes on, to the end of the try block after
\* the last request. Not answered, the fetch rejects into catch.
SaveFetch(i, answered) ==
    LET request == Head(editor.saves[i])
        rest == Tail(editor.saves[i])
        block == findBlock(request.id)
        manual == findManual(findSection(block.sectionId).manualId)
        data == [fields |-> {"content"}, content |-> request.content, order |-> 0]
    IN
    /\ editor.page = "open"
    /\ i \in DOMAIN editor.saves
    /\ IF answered
       THEN /\ IF block = NoBlock
               THEN /\ resp' = Response("updateBlock", EditorUser, 404)
                    /\ UNCHANGED <<blocks, manuals>>
               ELSE \E teamMember \in teamMembersOf(EditorUser, manual) :
                    IF ~ inlineCanEdit(manual, teamMember, EditorUser)
                    THEN /\ resp' = Response("updateBlock", EditorUser, 403)
                         /\ UNCHANGED <<blocks, manuals>>
                    ELSE /\ blocks' = (blocks \ {block}) \cup {blockWithData(block, data)}
                         /\ manuals' = touch(1)
                         /\ resp' = Response("updateBlock", EditorUser, stampStatus(1))
            /\ editor' = IF rest = <<>>
                         THEN [editor EXCEPT !.saves = without(@, i),
                                             !.pendingChanges = NoChanges,
                                             !.stale = TRUE,
                                             !.saveStatus = "saved"]
                         ELSE [editor EXCEPT !.saves[i] = rest]
       ELSE /\ editor' = [editor EXCEPT !.saves = without(@, i), !.saveStatus = "unsaved"]
            /\ UNCHANGED <<blocks, manuals, resp>>
    /\ UNCHANGED <<users, credentials, teams, members, invitations, clock, now, versions,
                   shares, links, sections, notifications, seq, body, reqs>>

\* --------------------------------------------------------- SpecEditor
\* Team 1 with its manual 1, section 1 and blocks of content "a"; user 2, an
\* EDITOR, has the page open with nothing to save.
InitEditor ==
    /\ users = UserIds
    /\ credentials = [u \in UserIds |-> Account(bcryptHash(SignupPassword))]
    /\ editor = [page |-> "open",
                 content |-> [b \in EditorBlocks |-> "a"],
                 pendingChanges |-> NoChanges,
                 rendered |-> NoChanges,
                 stale |-> FALSE,
                 saveStatus |-> "saved",
                 timer |-> NoTimer,
                 saves |-> <<>>]
    /\ teams = {[id |-> 1, ownerId |-> 1]}
    /\ members = {[id |-> u, userId |-> u, teamId |-> 1,
                   role |-> IF u = 1 THEN "OWNER" ELSE IF u = 2 THEN "EDITOR" ELSE "VIEWER"] :
                    u \in UserIds}
    /\ invitations = {}
    /\ clock = 0
    /\ now = 0
    /\ LET manual == [id |-> 1, ownerId |-> 1, teamId |-> 1, title |-> "t1",
                      description |-> Null, updatedAt |-> 0]
       IN /\ manuals = {manual}
          /\ versions = {[id |-> 1, manualId |-> 1, content |-> InitialVersionContent(manual)]}
    /\ notifications = EmptyBag
    /\ shares = {}
    /\ links = {}
    /\ sections = {[id |-> 1, manualId |-> 1, title |-> "s1", order |-> 0, depth |-> 1,
                    parentId |-> NoId]}
    /\ blocks = {[id |-> b, sectionId |-> 1, type |-> "BODY", content |-> "a",
                  order |-> b - 1] : b \in EditorBlocks}
    /\ seq = [FirstIds EXCEPT !.team = 2, !.member = MaxUsers + 1, !.manual = 2, !.version = 2,
                              !.section = 2, !.block = MaxBlocks + 1]
    /\ resp = Response("none", NoId, 0)
    /\ body = NoBody
    /\ reqs = <<>>

NextEditor ==
    \/ \E blockId \in EditorBlocks, content \in Contents : handleUpdateBlock(blockId, content)
    \/ Render
    \/ TimerFires
    \/ BeforeUnload
    \/ \E i \in 1..MaxSaves, answered \in BOOLEAN : SaveFetch(i, answered)
    \/ \E blockId \in EditorBlocks : DeleteBlock(OtherUser, 1, blockId)

SpecEditor == InitEditor /\ [][NextEditor]_vars

\* ------------------------------------------------------------ C21
\* the content the server holds for the block once the step is taken
storedAfter(blockId) ==
    IF \E b \in blocks' : b.id = blockId
    THEN (CHOOSE b \in blocks' : b.id = blockId).content
    ELSE Null

\* the i-th save in flight ends with this step and leaves the indicator 'saved'
endsSaved(i) ==
    /\ Len(editor.saves[i]) = 1
    /\ editor'.saves = without(editor.saves, i)
    /\ editor'.saveStatus = "saved"

\* C21: a save attempt whose PUT the server did not carry out does not leave
\* the save indicator 'saved': when a save ends with the indicator 'saved',
\* the server holds the content of the request the save has just made.
C21_SavedOnlyWhenStored ==
    [][\A i \in DOMAIN editor.saves :
        endsSaved(i) =>
            storedAfter(Head(editor.saves[i]).id) = Head(editor.saves[i]).content]_vars

\* -------------------------------------------------------- SpecAutoSave
\* The editor left to itself: every request is answered, the pending render
\* is done, a pending timer fires; the user edits or not.
NextAutoSave ==
    \/ \E blockId \in EditorBlocks, content \in Contents : handleUpdateBlock(blockId, content)
    \/ Render
    \/ TimerFires
    \/ \E i \in 1..MaxSaves : SaveFetch(i, TRUE)

SpecAutoSave ==
    /\ InitEditor
    /\ [][NextAutoSave]_vars
    /\ WF_vars(Render)
    /\ WF_vars(TimerFires)
    /\ WF_vars(\E i \in 1..MaxSaves : SaveFetch(i, TRUE))

\* ------------------------------------------------------------ C30
\* every edited content is on the server, nothing is pending, and the
\* indicator shows 'saved'
allSaved ==
    /\ editor.saveStatus = "saved"
    /\ nothingPending(editor.pendingChanges)
    /\ \A b \in EditorBlocks : findBlock(b).content = editor.content[b]

\* C30: unless the user goes on editing for ever, from some time on the
\* edited content is on the server, pendingChanges is empty and the save
\* indicator is 'saved'.
C30_AutoSaveAfterEdit ==
    \/ []<><<\E blockId \in EditorBlocks, content \in Contents :
                handleUpdateBlock(blockId, content)>>_vars
    \/ <>[]allSaved

====
